---- MODULE Spec2Model ----
(***************************************************************************)
(* A model of the casperfpga_rs host library: the TFTP engine              *)
(* (tapcp/src/tftp.rs), the TAPCP helpers (tapcp/src/lib.rs), the TAPCP    *)
(* transport (casperfpga/src/transport/tapcp.rs), the Mock transport       *)
(* (casperfpga/src/transport/mock.rs), the peripherals                     *)
(* (casperfpga/src/yellow_blocks) and the decoders of casper_utils.        *)
(*                                                                         *)
(* The specifications of the module:                                       *)
(*   Spec      the TFTP engine against an RFC-1350 server over a lossy     *)
(*             datagram channel;                                           *)
(*   SpecDev   the transport's word-aligned device reads and writes;       *)
(*   SpecProg  the transport's program / deprogram sequence on the flash;  *)
(*   SpecWrap  the retry wrappers and is_running;                          *)
(*   SpecMeta  set_metadata and get_metadata on the metadata region;       *)
(*   SpecPer   peripheral calls of several threads on one handle;          *)
(*   SpecSnap  snapshots and ADC controller calls of several threads;      *)
(*   SpecMock  typed accessors and peripherals on one Mock;                *)
(*   SpecPort  transfers over the handle's connected socket;               *)
(*   SpecAdc   calls on the ADC16 controller from one thread;              *)
(*   SpecBank  SnapAdc::initialize and snapshots, from one thread;         *)
(*   SpecSend  single chip registers on the 3-wire word;                   *)
(*   SpecCsl   from_bytes of the compact sorted list on bounded blobs;     *)
(*   SpecFpg   fpg_file on bounded descriptors.                            *)
(***************************************************************************)
EXTENDS Integers, Sequences, FiniteSets, TLC

VARIABLES
    \* ---- TFTP engine (client side, tftp.rs) ----
    cpc,          \* position of the running call: idle, wrq_wait, data_wait, rrq_wait, done
    cop,          \* the running call: [kind, path, data, retries]
    retry_count,  \* backoff_read's local retry_count
    ci,           \* write's loop index i (0-based chunk index awaiting its ACK)
    output,       \* read's output vector
    cres,         \* the call's result
    cliRx,        \* datagrams queued in the client's socket
    srvRx,        \* datagrams queued at the server
    srv,          \* the server's transfer state
    files,        \* the server's completed files
    hist,         \* history of the running and previous call (for the properties)
    net,          \* [faults, calls] so far, and the handle's retries
    \* ---- TAPCP transport, device access (tapcp.rs / lib.rs) ----
    dev,          \* device memory, a sequence of bytes
    dcall,        \* the last transport call and what it did
    \* ---- TAPCP transport, programming (tapcp.rs / lib.rs) ----
    platform,     \* the handle's platform
    flashMeta,    \* the characters stored from byte address flash_location on
    flashFill,    \* how many '0' characters follow them before the erased flash
    flashAt,      \* the flash outside the metadata: byte address -> what was written there
    ppc,          \* position of the running program call
    pcall,        \* the running call: [design, force, idx, stored, res, reads]
    plog,         \* the flash writes and boot commands of the running call, in order
    booted,       \* what the FPGA last booted, and the call that issued the last progdev
    \* ---- retry wrappers of lib.rs and their callers ----
    wr,           \* the running retrying_download / retrying_upload call
    \* ---- set_metadata / get_metadata of lib.rs ----
    mpc,          \* "idle", or "reading" while get_metadata is in its loop
    mchunks,      \* get_metadata's chunk counter chunks
    mcall,        \* the last metadata call: [op, res, map, reads]
    mset,         \* the map the flash holds from the last set_metadata that succeeded
    \* ---- peripherals of one handle used from several threads (yellow_blocks) ----
    owner,        \* the Arc<Mutex<T>> of the top-level struct still exists
    lock,         \* the Mutex: [holder, poisoned]
    th,           \* per thread: the peripheral call it runs
    reg,          \* the registers behind the transport, by fields
    \* ---- typed accessors and peripherals on the Mock transport (transport/mock.rs) ----
    memory,       \* Mock.memory: address -> byte
    sw,           \* the software register under test: [direction, width, kind]
    mk,           \* the last call on the Mock, and the successful write before it
    \* ---- the handle's UDP endpoint during a transfer (tapcp.rs connect, tftp.rs) ----
    sock,         \* the connected socket: [peer, rx]
    xfer,         \* the running transfer and what has been observed of it
    pnet,         \* datagrams on their way, and the port the server chose
    \* ---- the ADC16 controller used from one thread (snapadc/controller.rs) ----
    actl,         \* the control register and whether the gateware has demux modes
    acs,          \* the controller's chip-select, self.cs
    acall,        \* the last call on the controller and what it found and did
    \* ---- the pure decoders of casper_utils (csl.rs, design_sources/fpg.rs) ----
    csl,          \* a blob and what from_bytes returned for it: [in, out]
    fpg           \* a descriptor and what fpg_file returned for it: [in, out]

tftpVars == <<cpc, cop, retry_count, ci, output, cres, cliRx, srvRx, srv, files, hist, net>>
devVars  == <<dev, dcall>>
progVars == <<platform, flashMeta, flashFill, flashAt, ppc, pcall, plog, booted>>
wrapVars == <<wr>>
metaVars == <<mpc, mchunks, mcall, mset>>
perVars  == <<owner, lock, th, reg>>
mockVars == <<memory, sw, mk>>
portVars == <<sock, xfer, pnet>>
adcVars  == <<actl, acs, acall>>
utilVars == <<csl, fpg>>
vars     == <<tftpVars, devVars, progVars, wrapVars, metaVars, perVars, mockVars, portVars, adcVars, utilVars>>

(***************************************************************************)
(* Bounds of the model.                                                    *)
(***************************************************************************)
MaxRetries == 2    \* the handle's retries ranges over 0..MaxRetries
MaxCalls   == 3    \* calls made on one socket
MaxFaults  == 1    \* datagrams lost by the channel plus retransmissions by the server's timer

(***************************************************************************)
(* tftp.rs                                                                 *)
(***************************************************************************)
MAX_DATA == 512

Min(a, b) == IF a < b THEN a ELSE b
Max(a, b) == IF a > b THEN a ELSE b

Paths == {"/dev/a"}

\* The payloads handed to upload: byte sequences of the lengths around the
\* block size, their bytes depending on position and on a seed.
Lens == {0, 1, MAX_DATA, MAX_DATA + 1, MAX_DATA + MAX_DATA}
Bytes(seed, len) == [i \in 1..len |-> (i + seed) % 256]

\* Payload (tftp.rs 96-116), one record shape for the five packets.
\* The field tag is not on the wire: it names the call whose packet this is (or
\* whose packet it answers) and is read by the properties only.
ReadP(f, t)    == [op |-> "RRQ",   filename |-> f,  block |-> 0, data |-> <<>>, code |-> "-", tag |-> t]
WriteP(f, t)   == [op |-> "WRQ",   filename |-> f,  block |-> 0, data |-> <<>>, code |-> "-", tag |-> t]
DataP(b, d, t) == [op |-> "DATA",  filename |-> "", block |-> b, data |-> d,    code |-> "-", tag |-> t]
AckP(b, t)     == [op |-> "ACK",   filename |-> "", block |-> b, data |-> <<>>, code |-> "-", tag |-> t]
ErrorP(c, t)   == [op |-> "ERROR", filename |-> "", block |-> 0, data |-> <<>>, code |-> c,   tag |-> t]

\* data.chunks(MAX_DATA): the number of chunks and the i-th (0-based) chunk.
NumChunks(d) == (Len(d) + MAX_DATA - 1) \div MAX_DATA
Chunk(d, i)  == SubSeq(d, i * MAX_DATA + 1, Min(Len(d), (i + 1) * MAX_DATA))

\* backoff_read / backoff_write give up when retry_count has reached retries.
Exhausted(rc, retries) == rc = retries

\* read's end-of-data condition.
EndOfData(d) == Len(d) < MAX_DATA

\* write's check of an ACK against the chunk index i it just sent.
AckMatches(block, i) == block = i + 1

NoCall  == [kind |-> "none", path |-> "", data |-> <<>>, retries |-> 0]
NoFile  == <<-1>>
Waiting == {"wrq_wait", "data_wait", "rrq_wait"}
SrvIdle == [mode |-> "idle", path |-> "", blk |-> 0, buf |-> <<>>, last |-> AckP(0, 0)]
NoHist  == [lastGood |-> 0, gotAck0 |-> FALSE, acks |-> {}, sentData |-> {},
            lastSent |-> AckP(0, 0), timedOut |-> FALSE,
            prev |-> [kind |-> "none", res |-> "none"],
            up |-> [ok |-> FALSE, path |-> "", data |-> <<>>, clean |-> FALSE],
            srvAcked |-> {}, srvSawEnd |-> FALSE]

TftpInit ==
    /\ cpc = "idle" /\ cop = NoCall /\ retry_count = 0 /\ ci = 0
    /\ output = <<>> /\ cres = "none"
    /\ cliRx = <<>> /\ srvRx = <<>>
    /\ srv = SrvIdle
    /\ files = [p \in Paths |-> NoFile]
    /\ hist = NoHist
    /\ net \in {[faults |-> 0, calls |-> 0, retries |-> r] : r \in 0..MaxRetries}

\* What a call leaves for the properties when it returns.
Returned(h, op, res) ==
    IF op.kind = "upload"
    THEN [h EXCEPT !.up = [ok |-> res = "Ok", path |-> op.path, data |-> op.data,
                           clean |-> net.faults = 0 /\ ~h.timedOut]]
    ELSE h

\* One packet leaves the client's socket.
ClientSends(h, pkt) ==
    [h EXCEPT !.lastSent = pkt,
              !.sentData = IF pkt.op = "DATA" THEN @ \cup {pkt.block} ELSE @]

\* upload(path, data) with the handle's retries: write's WRQ through backoff_write.
CallUpload(path, data) ==
    /\ cpc \in {"idle", "done"}
    /\ net.calls < MaxCalls
    /\ LET op == [kind |-> "upload", path |-> path, data |-> data, retries |-> net.retries]
           h0 == [hist EXCEPT !.lastGood = 0, !.gotAck0 = FALSE, !.acks = {},
                              !.sentData = {}, !.timedOut = FALSE,
                              !.prev = [kind |-> cop.kind, res |-> cres]]
           t  == net.calls + 1
       IN  /\ cop' = op
           /\ net' = [net EXCEPT !.calls = t]
           /\ retry_count' = 0 /\ ci' = 0 /\ output' = <<>>
           /\ IF Exhausted(0, op.retries)
              THEN /\ cpc' = "done" /\ cres' = "Timeout"
                   /\ srvRx' = srvRx
                   /\ hist' = Returned(h0, op, "Timeout")
              ELSE /\ cpc' = "wrq_wait" /\ cres' = "none"
                   /\ srvRx' = Append(srvRx, WriteP(path, t))
                   /\ hist' = ClientSends(h0, WriteP(path, t))
    /\ UNCHANGED <<cliRx, srv, files>>

\* download(path) with the handle's retries: read's RRQ through backoff_write.
CallDownload(path) ==
    /\ cpc \in {"idle", "done"}
    /\ net.calls < MaxCalls
    /\ LET op == [kind |-> "download", path |-> path, data |-> <<>>, retries |-> net.retries]
           h0 == [hist EXCEPT !.lastGood = 0, !.gotAck0 = FALSE, !.acks = {},
                              !.sentData = {}, !.timedOut = FALSE,
                              !.prev = [kind |-> cop.kind, res |-> cres]]
           t  == net.calls + 1
       IN  /\ cop' = op
           /\ net' = [net EXCEPT !.calls = t]
           /\ retry_count' = 0 /\ ci' = 0 /\ output' = <<>>
           /\ IF Exhausted(0, op.retries)
              THEN /\ cpc' = "done" /\ cres' = "Timeout"
                   /\ srvRx' = srvRx
                   /\ hist' = h0
              ELSE /\ cpc' = "rrq_wait" /\ cres' = "none"
                   /\ srvRx' = Append(srvRx, ReadP(path, t))
                   /\ hist' = ClientSends(h0, ReadP(path, t))
    /\ UNCHANGED <<cliRx, srv, files>>

\* backoff_read's socket.recv timed out (nothing is queued): retry_count += 1,
\* and the loop head fails the call once retry_count has reached retries.
\* Nothing is sent.
ClientRecvTimeout ==
    /\ cpc \in Waiting
    /\ cliRx = <<>>
    /\ retry_count' = retry_count + 1
    /\ IF Exhausted(retry_count + 1, cop.retries)
       THEN /\ cpc' = "done" /\ cres' = "Timeout"
            /\ hist' = Returned([hist EXCEPT !.timedOut = TRUE], cop, "Timeout")
       ELSE /\ cpc' = cpc /\ cres' = cres
            /\ hist' = [hist EXCEPT !.timedOut = TRUE]
    /\ UNCHANGED <<cop, ci, output, cliRx, srvRx, srv, files, net>>

\* The call returns `res` without sending anything more.
Finish(res, h) ==
    /\ cpc' = "done" /\ cres' = res
    /\ hist' = Returned(h, cop, res)
    /\ UNCHANGED <<ci, output, srvRx>>

\* write, after the ACK of chunk i - 1 (or of the WRQ, i = 0) has been accepted:
\* send chunk i as DATA block i + 1, or return Ok when the chunks are used up.
SendChunkOrReturn(i, h) ==
    IF i < NumChunks(cop.data)
    THEN /\ cpc' = "data_wait" /\ cres' = cres
         /\ ci' = i
         /\ srvRx' = Append(srvRx, DataP(i + 1, Chunk(cop.data, i), net.calls))
         /\ hist' = ClientSends(h, DataP(i + 1, Chunk(cop.data, i), net.calls))
         /\ output' = output
    ELSE Finish("Ok", h)

\* write: the reply to the WRQ (tftp.rs 337-349).
RecvWrqReply(pkt) ==
    /\ cpc = "wrq_wait"
    /\ CASE pkt.op = "ACK" /\ pkt.block = 0 ->
              SendChunkOrReturn(0, [hist EXCEPT !.gotAck0 = TRUE])
         [] pkt.op = "ACK" /\ pkt.block # 0 -> Finish("BadBlock", hist)
         [] pkt.op = "ERROR" -> Finish("ErrorResponse", hist)
         [] OTHER -> Finish("Panic", hist)

\* write: the reply to DATA block i + 1 (tftp.rs 361-374).
RecvDataReply(pkt) ==
    /\ cpc = "data_wait"
    /\ CASE pkt.op = "ACK" /\ AckMatches(pkt.block, ci) ->
              SendChunkOrReturn(ci + 1, [hist EXCEPT !.acks = @ \cup {pkt.block}])
         [] pkt.op = "ACK" /\ ~AckMatches(pkt.block, ci) -> Finish("BadBlock", hist)
         [] pkt.op = "ERROR" -> Finish("ErrorResponse", hist)
         [] OTHER -> Finish("Panic", hist)

\* read: one pass of the loop (tftp.rs 292-314). Every DATA packet is appended
\* to output and acknowledged with the block number it carries.
RecvRrqReply(pkt) ==
    /\ cpc = "rrq_wait"
    /\ CASE pkt.op = "DATA" ->
              /\ output' = output \o pkt.data
              /\ srvRx' = Append(srvRx, AckP(pkt.block, net.calls))
              /\ ci' = ci
              /\ LET h == ClientSends([hist EXCEPT !.lastGood =
                                          IF pkt.block = @ + 1 THEN pkt.block ELSE @],
                                      AckP(pkt.block, net.calls))
                 IN  IF EndOfData(pkt.data)
                     THEN /\ cpc' = "done" /\ cres' = "Ok" /\ hist' = Returned(h, cop, "Ok")
                     ELSE /\ cpc' = cpc /\ cres' = cres /\ hist' = h
         [] pkt.op = "ERROR" -> Finish("ErrorResponse", hist)
         [] OTHER -> Finish("Panic", hist)

\* backoff_read's socket.recv returned the datagram at the head of the queue;
\* the next backoff_read starts with retry_count = 0.
ClientRecv ==
    /\ cpc \in Waiting
    /\ cliRx # <<>>
    /\ cliRx' = Tail(cliRx)
    /\ retry_count' = 0
    /\ \/ RecvWrqReply(Head(cliRx))
       \/ RecvDataReply(Head(cliRx))
       \/ RecvRrqReply(Head(cliRx))
    /\ UNCHANGED <<cop, srv, files, net>>

(***************************************************************************)
(* The peer: an RFC-1350 server with one transfer at a time.  A write      *)
(* transfer is complete, and the file stored, when a DATA block shorter    *)
(* than 512 bytes has arrived; a request that arrives earlier abandons it. *)
(***************************************************************************)
SrvReply(pkt) == cliRx' = Append(cliRx, pkt)

SrvOnWrq(pkt) ==
    /\ pkt.op = "WRQ"
    /\ srv' = [mode |-> "recv", path |-> pkt.filename, blk |-> 0, buf |-> <<>>,
               last |-> AckP(0, pkt.tag)]
    /\ SrvReply(AckP(0, pkt.tag))
    /\ UNCHANGED <<files, hist>>

SrvOnRrq(pkt) ==
    /\ pkt.op = "RRQ"
    /\ IF files[pkt.filename] = NoFile
       THEN /\ srv' = SrvIdle
            /\ SrvReply(ErrorP("NotFound", pkt.tag))
       ELSE LET d == DataP(1, Chunk(files[pkt.filename], 0), pkt.tag)
            IN  /\ srv' = [mode |-> "send", path |-> pkt.filename, blk |-> 1,
                           buf |-> files[pkt.filename], last |-> d]
                /\ SrvReply(d)
    /\ UNCHANGED <<files, hist>>

\* DATA of a write transfer: the next block is stored and acknowledged.
SrvOnData(pkt) ==
    /\ pkt.op = "DATA"
    /\ srv.mode = "recv" /\ pkt.block = srv.blk + 1
    /\ SrvReply(AckP(pkt.block, pkt.tag))
    /\ hist' = [hist EXCEPT !.srvAcked = @ \cup {<<pkt.tag, pkt.block>>}]
    /\ IF Len(pkt.data) < MAX_DATA
       THEN /\ files' = [files EXCEPT ![srv.path] = srv.buf \o pkt.data]
            /\ srv' = SrvIdle
       ELSE /\ files' = files
            /\ srv' = [srv EXCEPT !.blk = pkt.block, !.buf = @ \o pkt.data,
                                  !.last = AckP(pkt.block, pkt.tag)]

\* ACK of a read transfer: the next block is sent, or the transfer is over.
SrvOnAck(pkt) ==
    /\ pkt.op = "ACK"
    /\ srv.mode = "send" /\ pkt.block = srv.blk
    /\ IF Len(Chunk(srv.buf, srv.blk - 1)) < MAX_DATA
       THEN /\ srv' = SrvIdle
            /\ cliRx' = cliRx
       ELSE LET d == DataP(srv.blk + 1, Chunk(srv.buf, srv.blk), pkt.tag)
            IN  /\ srv' = [srv EXCEPT !.blk = @ + 1, !.last = d]
                /\ SrvReply(d)
    /\ UNCHANGED <<files, hist>>

\* Anything else (a duplicate ACK, a packet outside a transfer) is dropped.
SrvIgnores(pkt) ==
    /\ \/ pkt.op = "DATA" /\ ~(srv.mode = "recv" /\ pkt.block = srv.blk + 1)
       \/ pkt.op = "ACK"  /\ ~(srv.mode = "send" /\ pkt.block = srv.blk)
    /\ UNCHANGED <<srv, cliRx, files, hist>>

SrvHandle ==
    /\ srvRx # <<>>
    /\ srvRx' = Tail(srvRx)
    /\ \/ SrvOnWrq(Head(srvRx))
       \/ SrvOnRrq(Head(srvRx))
       \/ SrvOnData(Head(srvRx))
       \/ SrvOnAck(Head(srvRx))
       \/ SrvIgnores(Head(srvRx))
    /\ UNCHANGED <<cpc, cop, retry_count, ci, output, cres, net>>

\* The server's retransmission timer: its last packet is sent again.
SrvTimer ==
    /\ srv.mode \in {"recv", "send"}
    /\ net.faults < MaxFaults
    /\ cliRx' = Append(cliRx, srv.last)
    /\ net' = [net EXCEPT !.faults = @ + 1]
    /\ UNCHANGED <<cpc, cop, retry_count, ci, output, cres, srvRx, srv, files, hist>>

\* The channel loses the datagram at the head of a queue.
Lose ==
    /\ net.faults < MaxFaults
    /\ net' = [net EXCEPT !.faults = @ + 1]
    /\ \/ srvRx # <<>> /\ srvRx' = Tail(srvRx) /\ cliRx' = cliRx
       \/ cliRx # <<>> /\ cliRx' = Tail(cliRx) /\ srvRx' = srvRx
    /\ UNCHANGED <<cpc, cop, retry_count, ci, output, cres, srv, files, hist>>

(***************************************************************************)
(* lib.rs and transport/tapcp.rs: device reads and writes.  One TFTP       *)
(* transaction is one step here: it succeeds (`ok`) or fails as a whole.   *)
(***************************************************************************)
DevWords == 6      \* size of the device's memory, in 4-byte words
MaxN     == 5      \* read_n_bytes is called with n in 1..MaxN

HexChars == <<"0", "1", "2", "3", "4", "5", "6", "7", "8", "9", "a", "b", "c", "d", "e", "f">>

\* format!("{n:x}"): lower-case hexadecimal without padding.
RECURSIVE Hex(_)
Hex(n) == IF n < 16 THEN <<HexChars[n + 1]>>
          ELSE Hex(n \div 16) \o <<HexChars[(n % 16) + 1]>>

\* The server's reading of a hexadecimal field of a file name.
RECURSIVE ParseHex(_)
ParseHex(s) == IF s = <<>> THEN 0
               ELSE 16 * ParseHex(SubSeq(s, 1, Len(s) - 1))
                    + (CHOOSE v \in 0..15 : HexChars[v + 1] = s[Len(s)])

\* The device memory the board starts with: bytes 01 02 03 04 05 06 07 08 ...
DevInitial == [i \in 1..(4 * DevWords) |-> i]

\* The server's answer to a read of /dev/<name>.<off>.<n>: n words from word
\* off (to the end of the device when n = 0), cut at the end of the device.
SrvReadDev(mem, file) ==
    LET o == ParseHex(file.off)
        n == ParseHex(file.n)
    IN  SubSeq(mem, 4 * o + 1, IF n = 0 THEN Len(mem) ELSE Min(Len(mem), 4 * (o + n)))

\* The server's handling of a write to /dev/<name>.<off>: data stored from word off.
SrvWriteDev(mem, file, data) ==
    LET o == ParseHex(file.off)
    IN  [i \in 1..Len(mem) |->
            IF i > 4 * o /\ i <= 4 * o + Len(data) THEN data[i - 4 * o] ELSE mem[i]]

\* read_device (lib.rs 159-175): the file name, the transaction, the length check.
read_device(mem, device, offset, n, ok) ==
    LET filename == [dev |-> device, off |-> Hex(offset), n |-> Hex(n)]
        bytes    == SrvReadDev(mem, filename)
    IN  IF ~ok THEN [res |-> "Tftp", bytes |-> <<>>, file |-> filename]
        ELSE IF n # 0 /\ Len(bytes) # n * 4
             THEN [res |-> "Incomplete", bytes |-> <<>>, file |-> filename]
             ELSE [res |-> "Ok", bytes |-> bytes, file |-> filename]

\* Tapcp::read_n_bytes (tapcp.rs 198-213).
first_word(offset)   == offset \div 4
last_word(offset, n) == (offset + n) \div 4
word_n(offset, n)    == last_word(offset, n) - first_word(offset)

read_n_bytes(mem, device, offset, n, ok) ==
    LET r         == read_device(mem, device, first_word(offset), word_n(offset, n), ok)
        start_idx == offset % 4
    IN  IF r.res # "Ok" THEN [res |-> r.res, out |-> <<>>, file |-> r.file]
        ELSE IF start_idx + n > Len(r.bytes)
             THEN [res |-> "Panic", out |-> <<>>, file |-> r.file]     \* slice index out of range
             ELSE [res |-> "Ok", out |-> SubSeq(r.bytes, start_idx + 1, start_idx + n),
                   file |-> r.file]

\* Tapcp::write_bytes (tapcp.rs 96-107): the word offset it hands to write_device.
write_word_offset(offset) == offset % 4

\* write_device (lib.rs 180-199) under write_bytes: the file written and the result.
write_bytes(device, offset, data, ok) ==
    IF (offset % 4) = 0 /\ (Len(data) % 4) = 0
    THEN [res |-> IF ok THEN "Ok" ELSE "Tftp", sent |-> ok,
          file |-> [dev |-> device, off |-> Hex(write_word_offset(offset)), n |-> <<>>]]
    ELSE [res |-> "Panic", sent |-> FALSE,                              \* todo!()
          file |-> [dev |-> device, off |-> <<>>, n |-> <<>>]]

\* Address of IpAddress in the 10-GbE core (ten_gbe.rs 116).
IpAddressAddr == 20

NoDCall == [op |-> "none", offset |-> 0, n |-> 0, data |-> <<>>, res |-> "none",
            out |-> <<>>, file |-> [dev |-> "", off |-> <<>>, n |-> <<>>], before |-> <<>>]

DevInit == dev = DevInitial /\ dcall = NoDCall

DevName == "gbe0"
Words   == {<<170, 187, 204, 221>>, <<10, 0, 0, 1>>}
Datas   == Words \cup {<<170, 187, 204, 221, 10, 0, 0, 1>>, <<1, 2, 3>>}

DoRead(opname, offset, n, ok) ==
    LET r == read_n_bytes(dev, DevName, offset, n, ok)
    IN  /\ dcall' = [op |-> opname, offset |-> offset, n |-> n, data |-> <<>>,
                     res |-> r.res, out |-> r.out, file |-> r.file, before |-> dev]
        /\ dev' = dev

DoWrite(opname, offset, data, ok) ==
    LET w == write_bytes(DevName, offset, data, ok)
    IN  /\ dcall' = [op |-> opname, offset |-> offset, n |-> Len(data), data |-> data,
                     res |-> w.res, out |-> <<>>, file |-> w.file, before |-> dev]
        /\ dev' = IF w.sent /\ 4 * ParseHex(w.file.off) + Len(data) <= Len(dev)
                  THEN SrvWriteDev(dev, w.file, data) ELSE dev

DevFrame == UNCHANGED <<tftpVars, progVars, wrapVars, metaVars, perVars, mockVars, portVars, adcVars, utilVars>>

\* Transport::read_n_bytes on the TAPCP transport.
ReadNBytes ==
    /\ \E offset \in 0..(4 * DevWords - 1), n \in 1..MaxN, ok \in BOOLEAN :
          /\ offset + n <= 4 * DevWords
          /\ DoRead("read_n_bytes", offset, n, ok)
    /\ DevFrame

\* Transport::write_bytes on the TAPCP transport.
WriteBytes ==
    /\ \E offset \in 0..(4 * DevWords - 1), data \in Datas, ok \in BOOLEAN :
          /\ offset + Len(data) <= 4 * DevWords
          /\ DoWrite("write_bytes", offset, data, ok)
    /\ DevFrame

\* TenGbE::set_ip: write_addr of the four octets at IpAddress's address.
SetIp ==
    /\ \E addr \in Words, ok \in BOOLEAN : DoWrite("set_ip", IpAddressAddr, addr, ok)
    /\ DevFrame

\* TenGbE::get_ip: read_addr of four bytes at IpAddress's address.
GetIp ==
    /\ \E ok \in BOOLEAN : DoRead("get_ip", IpAddressAddr, 4, ok)
    /\ DevFrame

\* A name the board has no device for.  The TAPCP transport keeps no register
\* map: the name goes into the file name of the request and the server answers
\* the request with ERROR (file not found), so the transaction fails.
UnknownDevice == "no_such_reg"

\* Transport::read_n_bytes on the TAPCP transport, naming an unknown device.
ReadUnknownDevice ==
    /\ \E offset \in 0..(4 * DevWords - 1), n \in 1..MaxN :
          LET r == read_n_bytes(dev, UnknownDevice, offset, n, FALSE)
          IN  /\ dcall' = [op |-> "read_n_bytes", offset |-> offset, n |-> n, data |-> <<>>,
                           res |-> r.res, out |-> r.out, file |-> r.file, before |-> dev]
              /\ dev' = dev
    /\ DevFrame

\* Transport::write_bytes on the TAPCP transport, naming an unknown device.
WriteUnknownDevice ==
    /\ \E offset \in 0..(4 * DevWords - 1), data \in Datas :
          LET w == write_bytes(UnknownDevice, offset, data, FALSE)
          IN  /\ dcall' = [op |-> "write_bytes", offset |-> offset, n |-> Len(data), data |-> data,
                           res |-> w.res, out |-> <<>>, file |-> w.file, before |-> dev]
              /\ dev' = dev
    /\ DevFrame

(***************************************************************************)
(* lib.rs and transport/tapcp.rs: flash metadata and programming.          *)
(* Strings are sequences of one-character strings.                         *)
(***************************************************************************)
FLASH_SECTOR_SIZE == 65536
MetaChunk         == 1024      \* get_metadata reads chunk_size = 1024 / 4 words at a time
MetaMaxChunks     == 128       \* get_metadata gives up when chunks > 128
MaxProgCalls      == 3         \* program / deprogram calls made on one handle

Platforms == {"SNAP", "SNAP2"}

\* Platform::flash_location and Platform::program_location (tapcp.rs 31-42).
flash_location(pl)   == IF pl = "SNAP" THEN 8388608 ELSE 12582912
program_location(pl) == flash_location(pl) + FLASH_SECTOR_SIZE

RECURSIVE Concat(_)
Concat(ss) == IF ss = <<>> THEN <<>> ELSE Head(ss) \o Concat(Tail(ss))

\* FpgaDesign::md5_string (design_sources/mod.rs 44-46): format!("{v:x}") of each byte.
md5_string(md5) == Concat([i \in 1..Len(md5) |-> Hex(md5[i])])

\* The usual hexadecimal form of a digest: two digits for each byte.
HexDigest(md5) == Concat([i \in 1..Len(md5) |-> <<HexChars[(md5[i] \div 16) + 1], HexChars[(md5[i] % 16) + 1]>>])

\* u32::to_string.
RECURSIVE Dec(_)
Dec(n) == IF n < 10 THEN <<HexChars[n + 1]>> ELSE Dec(n \div 10) \o <<HexChars[(n % 10) + 1]>>

\* The designs handed to program: a digest and a bitstream of `len` bytes, whose
\* content is named by the design and the position.  The digests of A and C
\* differ in their first two bytes (01 23 and 12 03).
Designs ==
    { [name |-> "A", len |-> FLASH_SECTOR_SIZE + 1,
       md5 |-> <<1, 35, 69, 103, 137, 171, 205, 239, 16, 50, 84, 118, 152, 186, 220, 254>>],
      [name |-> "B", len |-> FLASH_SECTOR_SIZE,
       md5 |-> <<18, 52, 86, 120, 154, 188, 222, 240, 33, 67, 101, 135, 169, 203, 237, 31>>],
      [name |-> "C", len |-> FLASH_SECTOR_SIZE,
       md5 |-> <<18, 3, 69, 103, 137, 171, 205, 239, 16, 50, 84, 118, 152, 186, 220, 254>>] }

\* design.bitstream().chunks(FLASH_SECTOR_SIZE): the number of chunks and the idx-th.
NumSectors(d)    == (d.len + FLASH_SECTOR_SIZE - 1) \div FLASH_SECTOR_SIZE
Sector(d, idx)   == [design |-> d.name, idx |-> idx,
                     len |-> Min(FLASH_SECTOR_SIZE, d.len - FLASH_SECTOR_SIZE * idx)]

\* The offset program hands to write_flash for chunk idx (tapcp.rs 163-164).
sector_offset(pl, idx) == program_location(pl) + FLASH_SECTOR_SIZE * idx

\* write_flash (lib.rs 221-236) names the file /flash.<offset:x>; the server takes
\* the field as a word offset, so the bytes land at four times its value.
SrvFlashAddr(file) == 4 * ParseHex(file)
write_flash_addr(offset) == SrvFlashAddr(Hex(offset))

\* The argument of progdev at the end of program (tapcp.rs 182-188).
progdev_arg_unshifted(pl) == program_location(pl)

progdev_arg(pl) == IF pl = "SNAP" THEN program_location(pl) \div 256 ELSE program_location(pl)

Erased == "FF"     \* a flash byte that was never written (not valid UTF-8)
K_md5  == <<"m", "d", "5">>
K_sector_size == <<"s", "e", "c", "t", "o", "r", "_", "s", "i", "z", "e">>
EndMark == <<"?", "e", "n", "d">>

\* str::find: the first index (1-based) at which pat occurs in s, 0 when it does not.
Find(s, pat) ==
    LET hits == {i \in 1..(Len(s) - Len(pat) + 1) : \A k \in 1..Len(pat) : s[i + k - 1] = pat[k]}
    IN  IF hits = {} THEN 0 ELSE CHOOSE i \in hits : \A j \in hits : i <= j

\* A set_metadata that leaves out the closing ?end.
metadata_bytes_unterminated(entries) ==
    LET dict == Concat([i \in 1..Len(entries) |->
                          <<"?">> \o entries[i][1] \o <<"\t">> \o entries[i][2]])
        pad  == IF Len(dict) % MetaChunk # 0 THEN MetaChunk - (Len(dict) % MetaChunk) ELSE 0
    IN  dict \o [i \in 1..pad |-> "0"]

\* set_metadata (lib.rs 299-319): the bytes written for the entries in the
\* order the map is iterated, ?end, and the padding with '0' to 1024.
metadata_bytes(entries) ==
    LET dict == Concat([i \in 1..Len(entries) |->
                          <<"?">> \o entries[i][1] \o <<"\t">> \o entries[i][2]]) \o EndMark
        pad  == IF Len(dict) % MetaChunk # 0 THEN MetaChunk - (Len(dict) % MetaChunk) ELSE 0
    IN  dict \o [i \in 1..pad |-> "0"]

\* The metadata region of the flash: the characters of `text`, then `fill`
\* characters '0', then flash that was never written.
MetaFlash == [text |-> flashMeta, fill |-> flashFill]

FlashChar(flash, i) ==
    IF i <= Len(flash.text) THEN flash.text[i]
    ELSE IF i <= Len(flash.text) + flash.fill THEN "0" ELSE Erased

FlashText(flash, a, b) == [i \in 1..(b - a + 1) |-> FlashChar(flash, a + i - 1)]

\* The metadata region after write_flash(user_flash_loc / 4, bytes).
FlashWriteMeta(flash, bytes) ==
    IF Len(bytes) >= Len(flash.text)
    THEN [text |-> bytes, fill |-> Max(0, flash.fill - (Len(bytes) - Len(flash.text)))]
    ELSE [text |-> bytes \o SubSeq(flash.text, Len(bytes) + 1, Len(flash.text)), fill |-> flash.fill]

\* str::split('?') and split_once('\t') of get_metadata (lib.rs 288-292): the
\* pairs in order; the map holds the last value of a key.
RECURSIVE SplitPairs(_)
SplitPairs(s) ==
    IF s = <<>> THEN <<>>
    ELSE LET q    == Find(s, <<"?">>)
             seg  == IF q = 0 THEN s ELSE SubSeq(s, 1, q - 1)
             rest == IF q = 0 THEN <<>> ELSE SubSeq(s, q + 1, Len(s))
             t    == Find(seg, <<"\t">>)
         IN  (IF t = 0 THEN <<>>
              ELSE << <<SubSeq(seg, 1, t - 1), SubSeq(seg, t + 1, Len(seg))>> >>)
             \o SplitPairs(rest)

\* read_flash of the metadata sector: the `chunks`-th run of 1024 bytes, which
\* holds erased bytes where the flash was never written.
MetaRead(flash, chunks) == FlashText(flash, chunks * MetaChunk + 1, (chunks + 1) * MetaChunk)

\* std::str::from_utf8 fails on a chunk that holds an erased byte.
ValidUtf8(raw) == \A i \in 1..Len(raw) : raw[i] # Erased

\* get_metadata (lib.rs 261-293): chunks are read and appended to dict_str until
\* ?end is found.  dict_str is always the text of the chunks read so far, that
\* is the first chunks * 1024 characters of the region, and is taken from there.
\* One pass of the loop gives [done, res, pairs, chunks, reads], reads being
\* the number of read_flash calls made so far.
MetaDone(res, pairs, reads) ==
    [done |-> TRUE, res |-> res, pairs |-> pairs, chunks |-> 0, reads |-> reads]

\* lib.rs 280-286: the outcome of dict_str.find("?end"), idx counted from 1.
MetaFound(flash, chunks, idx) ==
    IF idx = 0
    THEN [done |-> FALSE, res |-> "none", pairs |-> <<>>, chunks |-> chunks + 1, reads |-> chunks + 1]
    ELSE MetaDone("Ok", SplitPairs(FlashText(flash, 1, idx - 1)), chunks + 1)

\* lib.rs 279-280: from_utf8 of the chunk, push_str, find.  What had been read
\* before held no ?end, so the first occurrence, if any, lies in the last three
\* characters of the old text followed by the new chunk.
MetaPush(flash, chunks, raw) ==
    IF ~ValidUtf8(raw) THEN MetaDone("Utf8", <<>>, chunks + 1)
    ELSE LET from == Max(1, chunks * MetaChunk - Len(EndMark) + 2)
         IN  CHOOSE r \in {MetaFound(flash, chunks, IF Find(w, EndMark) = 0 THEN 0
                                                     ELSE from + Find(w, EndMark) - 1)
                             : w \in {FlashText(flash, from, chunks * MetaChunk) \o raw}} : TRUE

\* lib.rs 269-278: the loop head and read_flash of the next chunk.
MetaIter(flash, chunks) ==
    IF chunks > MetaMaxChunks THEN MetaDone("MissingMetadata", <<>>, chunks)
    ELSE CHOOSE r \in {MetaPush(flash, chunks, raw) : raw \in {MetaRead(flash, chunks)}} : TRUE

\* The loop run to its end.
RECURSIVE MetaLoop(_, _)
MetaLoop(flash, chunks) ==
    CHOOSE r \in {IF it.done THEN it ELSE MetaLoop(flash, it.chunks)
                    : it \in {MetaIter(flash, chunks)}} : TRUE

get_metadata(flash, ok) ==
    IF ~ok THEN MetaDone("Tftp", <<>>, 1) ELSE MetaLoop(flash, 0)

\* meta.get(key): the value of the last pair with that key, or None.
None == <<"None">>
MetaGet(pairs, key) ==
    LET at == {i \in 1..Len(pairs) : pairs[i][1] = key}
    IN  IF at = {} THEN None ELSE pairs[CHOOSE i \in at : \A j \in at : j <= i][2]

\* update_metadata (tapcp.rs 240-257): the two entries, in one of the two orders.
update_entries(d, md5first) ==
    LET m == <<K_md5, md5_string(d.md5)>>
        z == <<K_sector_size, Dec(FLASH_SECTOR_SIZE)>>
    IN  IF md5first THEN <<m, z>> ELSE <<z, m>>

\* program's fingerprint check (tapcp.rs 134-138).
skip_program(pairs, d, force) ==
    /\ MetaGet(pairs, K_md5) # None
    /\ MetaGet(pairs, K_md5) = md5_string(d.md5)
    /\ ~force

NoPCall == [op |-> "none", design |-> "", force |-> FALSE, idx |-> 0, stored |-> None,
            res |-> "none", reads |-> 0]

FlashGet(a) == IF a \in DOMAIN flashAt THEN flashAt[a] ELSE Erased
FlashPut(a, v) == [b \in DOMAIN flashAt \cup {a} |-> IF b = a THEN v ELSE flashAt[b]]

DesignOf(nm) == CHOOSE d \in Designs : d.name = nm

\* The flash as the reference tool leaves it after programming d: the image from
\* byte address program_location, the digest in its usual hexadecimal form.
RefMeta(d)       == metadata_bytes(<< <<K_md5, HexDigest(d.md5)>>, <<K_sector_size, Dec(FLASH_SECTOR_SIZE)>> >>)
RefImage(pl, d)  == [a \in {program_location(pl) + FLASH_SECTOR_SIZE * i : i \in 0..(NumSectors(d) - 1)} |->
                        Sector(d, (a - program_location(pl)) \div FLASH_SECTOR_SIZE)]

ProgInit ==
    /\ platform \in Platforms
    /\ flashFill = 0
    /\ \/ flashMeta = <<>> /\ flashAt = <<>>
       \/ \E d \in Designs : flashMeta = RefMeta(d) /\ flashAt = RefImage(platform, d)
    /\ ppc = "idle" /\ pcall = NoPCall /\ plog = <<>> /\ booted = [addr |-> -1, calls |-> 0, issued |-> "none"]

ProgFrame == UNCHANGED <<tftpVars, devVars, wrapVars, metaVars, perVars, mockVars, portVars, adcVars, utilVars>>

\* Tapcp::program up to the decision to write (tapcp.rs 128-148), m being what
\* self.metadata() returned.
ProgramDecide(d, force, m, stored) ==
    LET c == [op |-> "program", design |-> d.name, force |-> force, idx |-> 0,
              stored |-> stored, res |-> "none", reads |-> m.reads]
    IN  IF m.res # "Ok"
        THEN ppc' = "done" /\ pcall' = [c EXCEPT !.res = m.res]
        ELSE IF skip_program(m.pairs, d, force)
             THEN ppc' = "done" /\ pcall' = [c EXCEPT !.res = "Ok"]
             ELSE ppc' = "writing" /\ pcall' = c

ProgramWith(m) ==
    \E d \in Designs, force \in BOOLEAN : ProgramDecide(d, force, m, MetaGet(m.pairs, K_md5))

ProgramStart ==
    /\ ppc \in {"idle", "done"}
    /\ booted.calls < MaxProgCalls
    /\ \E ok \in BOOLEAN : ProgramWith(get_metadata(MetaFlash, ok))
    /\ plog' = <<>>
    /\ booted' = [booted EXCEPT !.calls = @ + 1]
    /\ UNCHANGED <<platform, flashMeta, flashFill, flashAt>>
    /\ ProgFrame

\* One pass of program's loop over the chunks (tapcp.rs 158-170): write_flash
\* succeeds, or fails and ends the call; a failed transfer has stored nothing
\* or has left a partly written sector.
ProgramWriteSector ==
    /\ ppc = "writing"
    /\ pcall.idx < NumSectors(DesignOf(pcall.design))
    /\ LET d    == DesignOf(pcall.design)
           addr == write_flash_addr(sector_offset(platform, pcall.idx))
       IN  \/ /\ flashAt' = FlashPut(addr, Sector(d, pcall.idx))
              /\ plog' = Append(plog, [kind |-> "write", addr |-> addr, idx |-> pcall.idx])
              /\ pcall' = [pcall EXCEPT !.idx = @ + 1]
              /\ ppc' = ppc
           \/ /\ \E torn \in BOOLEAN :
                    flashAt' = IF torn THEN FlashPut(addr, [Sector(d, pcall.idx) EXCEPT !.len = 0])
                               ELSE flashAt
              /\ plog' = Append(plog, [kind |-> "write_failed", addr |-> addr, idx |-> pcall.idx])
              /\ pcall' = [pcall EXCEPT !.res = "Tftp"]
              /\ ppc' = "done"
    /\ UNCHANGED <<platform, flashMeta, flashFill, booted>>
    /\ ProgFrame

\* After the loop: update_metadata (tapcp.rs 176), which ends the call when it fails.
ProgramUpdateMetadata ==
    /\ ppc = "writing"
    /\ pcall.idx = NumSectors(DesignOf(pcall.design))
    /\ \E md5first \in BOOLEAN :
          LET bytes == metadata_bytes(update_entries(DesignOf(pcall.design), md5first))
          IN  \/ /\ flashMeta' = FlashWriteMeta(MetaFlash, bytes).text
                 /\ flashFill' = FlashWriteMeta(MetaFlash, bytes).fill
                 /\ plog' = Append(plog, [kind |-> "meta", addr |-> flash_location(platform), idx |-> 0])
                 /\ ppc' = "booting" /\ pcall' = pcall
              \/ /\ flashMeta' = flashMeta /\ flashFill' = flashFill
                 /\ plog' = Append(plog, [kind |-> "meta_failed", addr |-> flash_location(platform), idx |-> 0])
                 /\ ppc' = "done" /\ pcall' = [pcall EXCEPT !.res = "Tftp"]
    /\ UNCHANGED <<platform, flashAt, booted>>
    /\ ProgFrame

\* progdev at the end of program (tapcp.rs 182-191): the result of the upload is
\* dropped; the board boots from the address when the command reaches it.
ProgramProgdev ==
    /\ ppc = "booting"
    /\ plog' = Append(plog, [kind |-> "progdev", addr |-> progdev_arg(platform), idx |-> 0])
    /\ \E delivered \in BOOLEAN :
          booted' = [booted EXCEPT !.addr = IF delivered THEN progdev_arg(platform) ELSE @,
                                   !.issued = pcall.design]
    /\ ppc' = "done" /\ pcall' = [pcall EXCEPT !.res = "Ok"]
    /\ UNCHANGED <<platform, flashMeta, flashFill, flashAt>>
    /\ ProgFrame

\* Tapcp::deprogram (tapcp.rs 194-196): progdev(0).
Deprogram ==
    /\ ppc \in {"idle", "done"}
    /\ booted.calls < MaxProgCalls
    /\ plog' = <<[kind |-> "progdev", addr |-> 0, idx |-> 0]>>
    /\ \E delivered \in BOOLEAN :
          booted' = [addr |-> IF delivered THEN 0 ELSE booted.addr, calls |-> booted.calls + 1,
                     issued |-> "deprogram"]
    /\ ppc' = "done"
    /\ pcall' = [NoPCall EXCEPT !.op = "deprogram", !.res = "Ok"]
    /\ UNCHANGED <<platform, flashMeta, flashFill, flashAt>>
    /\ ProgFrame

(***************************************************************************)
(* lib.rs: set_metadata and get_metadata as calls on the flash.  A map is  *)
(* a set of <<key, value>> pairs with distinct keys; set_metadata is one   *)
(* step, get_metadata takes one step per pass of its loop.                 *)
(***************************************************************************)
MetaMaps ==
    { {},
      { <<<<"f", "l", "a", "s", "h">>, <<"1", "2", "3", "4">>>>, <<<<"f", "o", "o">>, <<"b", "a", "r">>>> },
      { <<<<"a">>, <<"x", "\t", "y">>>> },
      { <<<<>>, <<>>>> },
      { <<<<"a">>, <<"x", "?", "y">>>> },
      { <<<<"k", "\t", "k">>, <<"v">>>> },
      { <<<<"q", "?">>, <<"v">>>> },
      { <<<<"e", "n", "d", "x">>, <<"v">>>> } }

\* The orders in which data.iter() may visit a HashMap.
Orders(map) == {s \in [1..Cardinality(map) -> map] : \A i, j \in 1..Cardinality(map) : s[i] = s[j] => i = j}

\* collect() into a HashMap: each key with the last value parsed for it.
MapOfPairs(pairs) == {<<pairs[i][1], MetaGet(pairs, pairs[i][1])>> : i \in 1..Len(pairs)}

\* The region before the first call: erased; 128 or 129 chunks of '0' and then
\* erased flash; two chunks with ?end across their boundary.
MetaFlashes ==
    { [text |-> <<>>, fill |-> 0],
      [text |-> <<>>, fill |-> MetaMaxChunks * MetaChunk],
      [text |-> <<>>, fill |-> (MetaMaxChunks + 1) * MetaChunk],
      [text |-> [i \in 1..(MetaChunk - 2) |-> "0"] \o EndMark, fill |-> MetaChunk - 2] }

NoMSet  == [some |-> FALSE, map |-> {}]
NoMCall == [op |-> "none", res |-> "none", map |-> {}, reads |-> 0]

MetaInit == mpc = "idle" /\ mchunks = 0 /\ mcall = NoMCall /\ mset = NoMSet

MetaFrame == UNCHANGED <<tftpVars, devVars, wrapVars, perVars, mockVars, portVars, adcVars, utilVars, platform, flashAt, ppc, pcall, plog, booted>>

\* set_metadata (lib.rs 299-319); write_flash either stores the bytes or is refused.
SetMetadata ==
    /\ mpc = "idle"
    /\ \E map \in MetaMaps, ok \in BOOLEAN :
          \E entries \in Orders(map) :
             /\ \E f \in {IF ok THEN FlashWriteMeta(MetaFlash, metadata_bytes(entries)) ELSE MetaFlash} :
                   flashMeta' = f.text /\ flashFill' = f.fill
             /\ mset' = IF ok THEN [some |-> TRUE, map |-> map] ELSE mset
             /\ mcall' = [op |-> "set_metadata", res |-> IF ok THEN "Ok" ELSE "Tftp", map |-> map, reads |-> 0]
    /\ UNCHANGED <<mpc, mchunks>>
    /\ MetaFrame

\* get_metadata up to its loop (lib.rs 266-268).
GetMetadataCall ==
    /\ mpc = "idle"
    /\ mpc' = "reading" /\ mchunks' = 0
    /\ mcall' = [op |-> "get_metadata", res |-> "none", map |-> {}, reads |-> 0]
    /\ UNCHANGED <<flashMeta, flashFill, mset>>
    /\ MetaFrame

\* One pass of get_metadata's loop (lib.rs 269-286) and, when it ends the loop,
\* the parse (lib.rs 288-292); read_flash may fail.
GetMetadataStep ==
    /\ mpc = "reading"
    /\ \/ /\ mchunks <= MetaMaxChunks
          /\ mpc' = "idle" /\ mchunks' = 0
          /\ mcall' = [mcall EXCEPT !.res = "Tftp", !.reads = @ + 1]
       \/ \E it \in {MetaIter(MetaFlash, mchunks)} :
             IF it.done
             THEN /\ mpc' = "idle" /\ mchunks' = 0
                  /\ mcall' = [mcall EXCEPT !.res = it.res, !.map = MapOfPairs(it.pairs),
                                            !.reads = it.reads]
             ELSE /\ mpc' = "reading" /\ mchunks' = it.chunks
                  /\ mcall' = [mcall EXCEPT !.reads = it.reads]
    /\ UNCHANGED <<flashMeta, flashFill, mset>>
    /\ MetaFrame

(***************************************************************************)
(* yellow_blocks: peripheral methods run by several threads on one handle. *)
(* Every method is the sequence of its steps: upgrade of the Weak, lock of *)
(* the Mutex, the transport accesses, and the return that drops the guard  *)
(* and the upgraded Arc.  A method called by another is inlined, "unlock"  *)
(* standing for the callee's return.                                       *)
(***************************************************************************)
NumThreads == 2
Threads    == 1..NumThreads

Methods == {"supports_demux", "get_demux", "set_demux", "trigger", "arm", "toggle_reset", "set_enable"}

\* The methods around a snapshot of the ADC (snapadc/mod.rs, controller.rs).
SnapMethods == {"snapshot", "snap_req", "bitslip", "set_demux"}

\* A trigger that gives the lock up between its read and its write.
ProgReleasing(op) ==
    CASE op = "supports_demux" -> <<"upgrade", "lock", "w_test", "r_test", "ret">>
      [] op = "get_demux"      -> <<"upgrade", "lock", "upgrade", "lock", "w_test", "r_test", "unlock",
                                    "branch", "r", "ret">>
      [] op = "set_demux"      -> <<"upgrade", "lock", "w_test", "r_test", "unlock", "branch",
                                    "upgrade", "lock", "r", "w_mode", "ret">>
      [] op = "trigger"        -> <<"upgrade", "lock", "r", "unlock", "upgrade", "lock", "w_trig", "ret">>
      [] op = "arm"            -> <<"upgrade", "lock", "w_ctrl", "w_arm", "ret">>
      [] op = "toggle_reset"   -> <<"upgrade", "lock", "r", "w_rst0", "w_rst1", "w_rst0", "ret">>
      [] op = "set_enable"     -> <<"upgrade", "lock", "w_enable", "ret">>
      [] op = "snap_req"       -> <<"upgrade", "lock", "w_ctl0", "w_req", "w_ctl0", "ret">>
      [] op = "bitslip"        -> <<"upgrade", "lock", "w_ctl0", "w_slip", "w_ctl0", "ret">>
      [] op = "snapshot"       -> <<"upgrade", "lock", "w_ctl0", "w_req", "w_ctl0", "unlock",
                                    "upgrade", "lock", "r_bram", "ret">>

\* The steps of each method: Adc16 (controller.rs 151-211, 353-382), Snapshot
\* (snapshot.rs 111-153), TenGbE (ten_gbe.rs 302-330), SnapAdc::snapshot
\* (snapadc/mod.rs 130-144) with snap_req inlined.
Prog(op) ==
    CASE op = "supports_demux" -> <<"upgrade", "lock", "w_test", "r_test", "ret">>
      [] op = "get_demux"      -> <<"upgrade", "lock", "upgrade", "lock", "w_test", "r_test", "unlock",
                                    "branch", "r", "ret">>
      [] op = "set_demux"      -> <<"upgrade", "lock", "w_test", "r_test", "unlock", "branch",
                                    "upgrade", "lock", "r", "w_mode", "ret">>
      [] op = "trigger"        -> <<"upgrade", "lock", "r", "w_trig", "ret">>
      [] op = "arm"            -> <<"upgrade", "lock", "w_ctrl", "w_arm", "ret">>
      [] op = "toggle_reset"   -> <<"upgrade", "lock", "r", "w_rst0", "w_rst1", "w_rst0", "ret">>
      [] op = "set_enable"     -> <<"upgrade", "lock", "w_enable", "ret">>
      [] op = "snap_req"       -> <<"upgrade", "lock", "w_ctl0", "w_req", "w_ctl0", "ret">>
      [] op = "bitslip"        -> <<"upgrade", "lock", "w_ctl0", "w_slip", "w_ctl0", "ret">>
      [] op = "snapshot"       -> <<"upgrade", "lock", "w_ctl0", "w_req", "w_ctl0", "unlock",
                                    "upgrade", "lock", "r_bram", "ret">>

\* The register a method works on, and the field its read-modify-write changes.
RegOf(op) ==
    IF op \in {"supports_demux", "get_demux", "set_demux", "snap_req", "bitslip", "snapshot"}
    THEN "adc16_controller"
    ELSE IF op \in {"trigger", "arm"} THEN "snapshot_ctrl" ELSE "gbe0"

ReadModifyWrite == {"set_demux", "trigger", "toggle_reset"}
OwnField(op) ==
    CASE op = "set_demux" -> "demux_mode" [] op = "trigger" -> "trig_override"
      [] op = "toggle_reset" -> "soft_rst" [] OTHER -> "none"

DemuxModes == {"SingleChannel", "DualChannel"}
ArgsOf(op) == IF op = "set_demux" THEN DemuxModes ELSE IF op = "set_enable" THEN BOOLEAN ELSE {FALSE}

AdcControlDefault == [demux_write_enable |-> FALSE, demux_mode |-> "SingleChannel",
                      snap_request |-> FALSE, bitslip |-> FALSE]
ControlDefault    == [arm |-> FALSE, trig_override |-> FALSE]
NoVal             == [none |-> TRUE]

Idle == [op |-> "none", ip |-> 0, arg |-> FALSE, strong |-> 0, guard |-> FALSE, val |-> NoVal,
         sup |-> FALSE, res |-> "none", io |-> FALSE, rmw |-> FALSE, clean |-> TRUE, late |-> FALSE,
         pending |-> FALSE, alone |-> TRUE, taken |-> FALSE]

\* demux_hw: the gateware has demux modes, so demux_write_enable never reads back set.
PerInit ==
    /\ owner = TRUE
    /\ lock = [holder |-> 0, poisoned |-> FALSE]
    /\ th = [t \in Threads |-> Idle]
    /\ \E hw \in BOOLEAN :
          reg = [adc16_controller |-> AdcControlDefault, snapshot_ctrl |-> ControlDefault,
                 gbe0 |-> [soft_rst |-> FALSE, promisc |-> FALSE, enable |-> FALSE],
                 demux_hw |-> hw]

PerFrame == UNCHANGED <<tftpVars, devVars, progVars, wrapVars, metaVars, mockVars, portVars, adcVars, utilVars>>

Running(t) == th[t].ip > 0
Instr(t)   == Prog(th[t].op)[th[t].ip]

\* Arc::strong_count: the owner's Arc and the Arcs upgraded by running calls.
StrongCount == (IF owner THEN 1 ELSE 0) + Cardinality({<<t, k>> \in Threads \X (1..2) : k <= th[t].strong})

\* The call ends with res: its guard and its upgraded Arcs are dropped.  A guard
\* dropped by a panicking thread poisons the Mutex.
Ended(t, res) == Idle

PFinish(t, res) ==
    /\ th' = [th EXCEPT ![t] = Ended(t, res)]
    /\ lock' = IF th[t].guard
               THEN [holder |-> 0, poisoned |-> lock.poisoned \/ res = "panic"]
               ELSE lock

\* A thread calls a method of one of the peripherals.
PCall ==
    /\ \E t \in Threads :
          /\ ~Running(t) /\ th[t].res # "deadlocked"
          /\ \E op \in Methods : \E arg \in ArgsOf(op) :
                th' = [th EXCEPT ![t] = [Idle EXCEPT !.op = op, !.ip = 1, !.arg = arg, !.late = ~owner]]
    /\ UNCHANGED <<owner, lock, reg>>
    /\ PerFrame

\* A thread calls SnapAdc::snapshot, or a method of the ADC controller.
SnapCall ==
    /\ \E t \in Threads :
          /\ ~Running(t) /\ th[t].res # "deadlocked"
          /\ \E op \in SnapMethods : \E arg \in ArgsOf(op) :
                th' = [th EXCEPT ![t] = [Idle EXCEPT !.op = op, !.ip = 1, !.arg = arg, !.late = ~owner]]
    /\ UNCHANGED <<owner, lock, reg>>
    /\ PerFrame

\* The top-level struct, and with it the owner's Arc, is dropped.
DropOwner ==
    /\ owner /\ owner' = FALSE
    /\ UNCHANGED <<lock, th, reg>>
    /\ PerFrame

\* self.transport.upgrade().unwrap(): panics when no Arc is left.
PUpgrade ==
    /\ \E t \in Threads :
          /\ Running(t) /\ th[t].res = "none" /\ Instr(t) = "upgrade"
          /\ IF StrongCount > 0
             THEN th' = [th EXCEPT ![t].ip = @ + 1, ![t].strong = @ + 1] /\ lock' = lock
             ELSE PFinish(t, "panic")
    /\ UNCHANGED <<owner, reg>>
    /\ PerFrame

\* (*tarc).lock().unwrap(): blocks while another thread holds the Mutex, panics
\* when it is poisoned; locking a Mutex the thread already holds either
\* deadlocks or panics (std::sync::Mutex::lock leaves open which).
PLock ==
    /\ \E t \in Threads :
          /\ Running(t) /\ th[t].res = "none" /\ Instr(t) = "lock"
          /\ \/ /\ lock.holder = t
                /\ \/ th' = [th EXCEPT ![t].res = "deadlocked"] /\ lock' = lock
                   \/ PFinish(t, "panic")
             \/ /\ lock.holder = 0 /\ lock.poisoned
                /\ PFinish(t, "panic")
             \/ /\ lock.holder = 0 /\ ~lock.poisoned
                /\ th' = [th EXCEPT ![t].ip = @ + 1, ![t].guard = TRUE]
                /\ lock' = [lock EXCEPT !.holder = t]
    /\ UNCHANGED <<owner, reg>>
    /\ PerFrame

\* What a register holds after a write: the gateware with demux modes does not
\* store demux_write_enable.
RegStored(r, v) ==
    IF r = "adc16_controller" /\ reg.demux_hw THEN [v EXCEPT !.demux_write_enable = FALSE] ELSE v

\* The value a writing step sends.
Written(t) ==
    LET i == Instr(t)
    IN  CASE i = "w_test"   -> [AdcControlDefault EXCEPT !.demux_write_enable = TRUE]
          [] i = "w_mode"   -> [th[t].val EXCEPT !.demux_mode = th[t].arg]
          [] i = "w_ctl0"   -> AdcControlDefault
          [] i = "w_req"    -> [AdcControlDefault EXCEPT !.snap_request = TRUE]
          [] i = "w_slip"   -> [AdcControlDefault EXCEPT !.bitslip = TRUE]
          [] i = "w_trig"   -> [th[t].val EXCEPT !.trig_override = TRUE]
          [] i = "w_ctrl"   -> ControlDefault
          [] i = "w_arm"    -> [ControlDefault EXCEPT !.arm = TRUE]
          [] i = "w_rst0"   -> [th[t].val EXCEPT !.soft_rst = FALSE]
          [] i = "w_rst1"   -> [th[t].val EXCEPT !.soft_rst = TRUE]
          [] i = "w_enable" -> [soft_rst |-> FALSE, promisc |-> FALSE, enable |-> th[t].arg]

Writes == {"w_test", "w_mode", "w_trig", "w_ctrl", "w_arm", "w_rst0", "w_rst1", "w_enable",
           "w_ctl0", "w_req", "w_slip"}
Reads  == {"r", "r_test", "r_bram"}

\* Another thread's transport access falls between a read and its write, or
\* between the request of a snapshot and the read of its BRAM.
Disturbed(t) ==
    [u \in Threads |->
        IF u = t THEN th[u]
        ELSE [th[u] EXCEPT !.clean = @ /\ ~th[u].rmw, !.alone = @ /\ ~th[u].pending]]

\* One transport access (read_addr, write_addr, read, write) through the guard;
\* an access that fails ends the call with its error.
PAccess ==
    /\ \E t \in Threads :
          /\ Running(t) /\ th[t].res = "none" /\ Instr(t) \in Writes \cup Reads
          /\ LET r == RegOf(th[t].op)
                 d == Disturbed(t)
             IN  \/ /\ Instr(t) \in Writes
                    /\ reg' = [reg EXCEPT ![r] = RegStored(r, Written(t))]
                    /\ th' = [d EXCEPT ![t].ip = @ + 1, ![t].io = TRUE,
                                       ![t].pending = @ \/ (th[t].op = "snapshot" /\ Instr(t) = "w_req")]
                    /\ lock' = lock
                 \* read_bytes of the chip's adc16_wb_ram: the snapshot that was requested
                 \/ /\ Instr(t) = "r_bram"
                    /\ th' = [d EXCEPT ![t].ip = @ + 1, ![t].io = TRUE, ![t].pending = FALSE,
                                       ![t].taken = TRUE]
                    /\ reg' = reg /\ lock' = lock
                 \/ /\ Instr(t) = "r"
                    /\ th' = [d EXCEPT ![t].ip = @ + 1, ![t].io = TRUE, ![t].val = reg[r],
                                       ![t].rmw = th[t].op \in ReadModifyWrite, ![t].clean = TRUE]
                    /\ reg' = reg /\ lock' = lock
                 \/ /\ Instr(t) = "r_test"
                    /\ th' = [d EXCEPT ![t].ip = @ + 1, ![t].io = TRUE,
                                       ![t].sup = ~reg[r].demux_write_enable]
                    /\ reg' = reg /\ lock' = lock
                 \/ /\ th' = [d EXCEPT ![t] = Ended(t, "Err")]
                    /\ lock' = IF th[t].guard THEN [lock EXCEPT !.holder = 0] ELSE lock
                    /\ reg' = reg
    /\ UNCHANGED owner
    /\ PerFrame

\* The steps without transport access: the return of an inlined callee, the
\* test of supports_demux's answer, and the return of the method.
PStep ==
    /\ \E t \in Threads :
          /\ Running(t) /\ th[t].res = "none"
          /\ \/ /\ Instr(t) = "unlock"
                /\ th' = [th EXCEPT ![t].ip = @ + 1, ![t].strong = @ - 1, ![t].guard = FALSE]
                /\ lock' = IF th[t].guard THEN [lock EXCEPT !.holder = 0] ELSE lock
             \/ /\ Instr(t) = "branch"
                /\ IF th[t].sup THEN th' = [th EXCEPT ![t].ip = @ + 1] /\ lock' = lock
                   ELSE PFinish(t, IF th[t].op = "get_demux" THEN "None" ELSE "Err")
             \/ /\ Instr(t) = "ret"
                /\ PFinish(t, "Ok")
    /\ UNCHANGED <<owner, reg>>
    /\ PerFrame

(***************************************************************************)
(* lib.rs: retrying_download and retrying_upload, and Tapcp::is_running on *)
(* top of read_device.  One pass of a wrapper's loop is one step; the      *)
(* transaction it issues (download / upload of the tftp_client crate) ends *)
(* with one of Outcomes.                                                   *)
(***************************************************************************)
MaxWrapRetries  == 3     \* a wrapper is called with retries in 0..MaxWrapRetries
MaxAttempts     == 9     \* transactions issued by one wrapper call
DEFAULT_RETRIES == 7

\* tftp_client::Error::Protocol carries the code of the server's ERROR packet.
ProtocolErrors == {"NotFound", "IllegalOp"}
Outcomes       == {"Ok", "OkShort", "Timeout", "BadPacket", "Io"} \cup ProtocolErrors
IsOk(o)        == o \in {"Ok", "OkShort"}

\* A wrapper that would go round again on every failure.
RetryableAnyFailure(o) == ~IsOk(o)

\* The arm Err(tftp_client::Error::Protocol { .. }) of the wrappers (lib.rs 61, 95).
Retryable(o) == o \in ProtocolErrors

\* What that arm adds to local_retries (lib.rs 64; lib.rs 97 and 99).
retry_increment(kind) == IF kind = "upload" THEN 2 ELSE 1

\* read_device's length check on what retrying_download returned (lib.rs 169-174).
read_device_result(res, o) ==
    IF res # "Ok" THEN res ELSE IF o = "OkShort" THEN "Incomplete" ELSE "Ok"

\* Tapcp::is_running (tapcp.rs 76-94) on read_device's result.
is_running_result(res) ==
    IF res = "Ok" THEN "true"
    ELSE IF res = "NotFound" THEN "false"
    ELSE "error"

NoWrap == [pc |-> "idle", kind |-> "none", caller |-> "none", retries |-> 0,
           local_retries |-> 0, attempts |-> 0, last |-> "none", res |-> "none",
           running |-> "none"]

WrapInit == wr = NoWrap

WrapFrame == UNCHANGED <<tftpVars, devVars, progVars, metaVars, perVars, mockVars, portVars, adcVars, utilVars>>

\* read_device / read_flash / write_device / write_flash enter their wrapper.
WrapCall ==
    /\ wr.pc \in {"idle", "done"}
    /\ \E kind \in {"download", "upload"}, r \in 0..MaxWrapRetries :
          wr' = [NoWrap EXCEPT !.pc = "loop", !.kind = kind, !.caller = "direct", !.retries = r]
    /\ WrapFrame

\* is_running: read_device("sys_clkcounter", 0, 1) with the handle's retries.
IsRunningCall ==
    /\ wr.pc \in {"idle", "done"}
    /\ wr' = [NoWrap EXCEPT !.pc = "loop", !.kind = "download", !.caller = "is_running",
                            !.retries = DEFAULT_RETRIES]
    /\ WrapFrame

\* The wrapper returns res; is_running translates it.
WrapReturn(w, res) ==
    [w EXCEPT !.pc = "done", !.res = res,
              !.running = IF w.caller = "is_running"
                          THEN is_running_result(read_device_result(res, w.last))
                          ELSE "none"]

\* One pass of the loop (lib.rs 54-75, 88-110): the check of local_retries,
\* then the transaction and the match on its result.
WrapStep ==
    /\ wr.pc = "loop"
    /\ IF wr.local_retries = wr.retries
       THEN wr' = WrapReturn(wr, "Timeout")
       ELSE /\ wr.attempts < MaxAttempts
            /\ \E o \in Outcomes :
                  LET w == [wr EXCEPT !.attempts = @ + 1, !.last = o]
                  IN  wr' = IF IsOk(o) THEN WrapReturn(w, "Ok")
                            ELSE IF Retryable(o)
                                 THEN [w EXCEPT !.local_retries = @ + retry_increment(w.kind)]
                                 ELSE WrapReturn(w, o)
    /\ WrapFrame

(***************************************************************************)
(* The Mock transport (transport/mock.rs), the typed accessors of          *)
(* transport/mod.rs and the peripherals that use them one call at a time:  *)
(* software registers, the clock switch and the block RAM.                 *)
(***************************************************************************)
MaxMockCalls == 2     \* calls made on one Mock in a run
BramAddrWidth == 1    \* the addr_width the Bram was built with

\* Bram::from_fpg: size = 1 << addr_width, in words.
BramSize == 2 ^ BramAddrWidth

\* The register map the Mock was constructed with.
MockRegisters ==
    ("sys_scratchpad" :> [addr |-> 0, length |-> 4]) @@
    ("my_reg" :> [addr |-> 4, length |-> 4]) @@
    ("my_bool" :> [addr |-> 8, length |-> 4]) @@
    ("adc16_use_synth" :> [addr |-> 12, length |-> 4]) @@
    ("my_bram" :> [addr |-> 16, length |-> 4 * BramSize])

\* Mock::new: every byte of every register is present and zero.
MockNew ==
    [a \in UNION {MockRegisters[d].addr .. (MockRegisters[d].addr + MockRegisters[d].length - 1) :
                    d \in DOMAIN MockRegisters} |-> 0]

\* HashMap::insert of data[1..] at the addresses from `at` on.
MemInsert(mem, at, data) ==
    [a \in DOMAIN mem \cup (at .. (at + Len(data) - 1)) |->
        IF a \in at .. (at + Len(data) - 1) THEN data[a - at + 1] ELSE mem[a]]

\* Mock::read_n_bytes: the device's length is not consulted, only the presence
\* of each address in the memory.
mock_read_n_bytes(mem, device, offset, n) ==
    IF device \notin DOMAIN MockRegisters
    THEN [res |-> "DeviceNotFound", bytes |-> <<>>]
    ELSE LET a == MockRegisters[device].addr IN
         IF \E i \in offset .. (offset + n - 1) : a + i \notin DOMAIN mem
         THEN [res |-> "OutOfBoundsIndexing", bytes |-> <<>>]
         ELSE [res |-> "Ok", bytes |-> [k \in 1..n |-> mem[a + offset + k - 1]]]

\* Mock::write_bytes, as the set of its possible outcomes.  With
\* offset > length the usize subtraction overflows: the call panics where
\* overflow is checked and otherwise wraps, passes the test and stores.
mock_write_bytes(mem, device, offset, data) ==
    IF device \notin DOMAIN MockRegisters
    THEN {[res |-> "DeviceNotFound", memory |-> mem]}
    ELSE LET d == MockRegisters[device] IN
         IF offset > d.length
         THEN {[res |-> "Panic", memory |-> mem],
               [res |-> "Ok", memory |-> MemInsert(mem, d.addr + offset, data)]}
         ELSE IF d.length - offset < Len(data)
         THEN {[res |-> "NonexistentAddress", memory |-> mem]}
         ELSE {[res |-> "Ok", memory |-> MemInsert(mem, d.addr + offset, data)]}

\* ---- Serialize / Deserialize of the number types (transport/mod.rs) ----
\* Integers are integers; the 32-bit patterns of u32 and f32 are pairs
\* <<high 16 bits, low 16 bits>>.
NumTypes == {"u8", "i8", "u16", "i16", "i32", "u32", "f32"}
LimbTypes == {"u32", "f32"}
SignedTypes == {"i8", "i16", "i32"}

NumBytes(type) ==
    CASE type \in {"u8", "i8"} -> 1
      [] type \in {"u16", "i16"} -> 2
      [] OTHER -> 4

\* v.to_be_bytes() of an n-byte integer, two's complement for negatives.
to_be_bytes(v, n) == [k \in 1..n |-> (v \div (256 ^ (n - k))) % 256]

RECURSIVE from_be_bytes_unsigned(_)
from_be_bytes_unsigned(bytes) ==
    IF bytes = <<>> THEN 0
    ELSE bytes[1] * (256 ^ (Len(bytes) - 1)) + from_be_bytes_unsigned(Tail(bytes))

from_be_bytes_signed(bytes) ==
    (IF bytes[1] >= 128 THEN bytes[1] - 256 ELSE bytes[1]) * (256 ^ (Len(bytes) - 1))
        + from_be_bytes_unsigned(Tail(bytes))

Reverse(s) == [k \in 1..Len(s) |-> s[Len(s) + 1 - k]]

\* The u32 of a small natural number.
U32(n) == <<n \div 65536, n % 65536>>

serialize(type, v) ==
    IF type \in LimbTypes THEN to_be_bytes(v[1], 2) \o to_be_bytes(v[2], 2)
    ELSE to_be_bytes(v, NumBytes(type))

deserialize_le(type, chunk) ==
    IF type \in LimbTypes
    THEN <<from_be_bytes_unsigned(SubSeq(Reverse(chunk), 1, 2)),
           from_be_bytes_unsigned(SubSeq(Reverse(chunk), 3, 4))>>
    ELSE IF type \in SignedTypes THEN from_be_bytes_signed(Reverse(chunk))
    ELSE from_be_bytes_unsigned(Reverse(chunk))

deserialize(type, chunk) ==
    IF type \in LimbTypes
    THEN <<from_be_bytes_unsigned(SubSeq(chunk, 1, 2)),
           from_be_bytes_unsigned(SubSeq(chunk, 3, 4))>>
    ELSE IF type \in SignedTypes THEN from_be_bytes_signed(chunk)
    ELSE from_be_bytes_unsigned(chunk)

\* Mock::read::<T> and Mock::write::<T>.
mock_read(mem, device, offset, type) ==
    LET r == mock_read_n_bytes(mem, device, offset, NumBytes(type)) IN
    IF r.res # "Ok" THEN [res |-> r.res, got |-> "none"]
    ELSE [res |-> "Ok", got |-> deserialize(type, r.bytes)]

mock_write(mem, device, offset, type, v) ==
    mock_write_bytes(mem, device, offset, serialize(type, v))

\* ---- fixed-point words (the fixed crate), by their bits ----
FixedKinds == {"U27F5", "I25F7"}
FRAC_NBITS(kind) == IF kind = "U27F5" THEN 5 ELSE 7

fixed_to_be_bytes(kind, bits) == to_be_bytes(bits, 4)
fixed_from_be_bytes(kind, bytes) ==
    IF kind = "I25F7" THEN from_be_bytes_signed(bytes) ELSE from_be_bytes_unsigned(bytes)

\* The right-hand side of write's width check as Rust parses it:
\* 2^width - (1 / 2^FRAC_NBITS), in usize arithmetic.
WidthCheckBound(width, kind) == (2 ^ width) - (1 \div (2 ^ FRAC_NBITS(kind)))

\* val > bound for the fixed-point val with the given bits.
FixedGreater(kind, bits, bound) == bits > bound * (2 ^ FRAC_NBITS(kind))

\* ---- the peripherals; each operator is the set of a call's outcomes ----
Out(res, mem, got, io) == [res |-> res, memory |-> mem, got |-> got, io |-> io]

FixedSoftwareRegister_read(mem, cfg) ==
    LET r == mock_read_n_bytes(mem, "my_reg", 0, 4) IN
    {IF r.res # "Ok" THEN Out(r.res, mem, "none", 1)
     ELSE Out("Ok", mem, fixed_from_be_bytes(cfg.kind, r.bytes), 1)}

FixedSoftwareRegister_write(mem, cfg, val) ==
    IF cfg.direction = "ToProcessor" THEN {Out("ReadOnly", mem, "none", 0)}
    ELSE IF FixedGreater(cfg.kind, val, WidthCheckBound(cfg.width, cfg.kind))
    THEN {Out("Overflow", mem, "none", 0)}
    ELSE {Out(o.res, o.memory, "none", 1) :
            o \in mock_write_bytes(mem, "my_reg", 0, fixed_to_be_bytes(cfg.kind, val))}

BooleanSoftwareRegister_read(mem) ==
    LET r == mock_read(mem, "my_bool", 0, "u32") IN
    {IF r.res # "Ok" THEN Out(r.res, mem, "none", 1)
     ELSE Out("Ok", mem, r.got = U32(1), 1)}

BooleanSoftwareRegister_write(mem, cfg, val) ==
    IF cfg.direction = "ToProcessor" THEN {Out("ReadOnly", mem, "none", 0)}
    ELSE {Out(o.res, o.memory, "none", 1) :
            o \in mock_write(mem, "my_bool", 0, "u32", U32(IF val THEN 1 ELSE 0))}

Sources == {"Internal", "External"}

set_source(mem, source) ==
    {Out(o.res, o.memory, "none", 1) :
        o \in mock_write(mem, "adc16_use_synth", 0, "u32",
                         IF source = "Internal" THEN U32(1) ELSE U32(0))}

get_source(mem) ==
    LET r == mock_read(mem, "adc16_use_synth", 0, "u32") IN
    {IF r.res # "Ok" THEN Out(r.res, mem, "none", 1)
     ELSE IF r.got = U32(1) THEN Out("Ok", mem, "Internal", 1)
     ELSE IF r.got = U32(0) THEN Out("Ok", mem, "External", 1)
     ELSE Out("Panic", mem, "none", 1)}

\* The Bram holds I25F7 words.
Bram_read_addr(mem, addr) ==
    IF addr >= BramSize THEN {Out("OutOfBounds", mem, "none", 0)}
    ELSE LET r == mock_read_n_bytes(mem, "my_bram", addr, 4) IN
         {IF r.res # "Ok" THEN Out(r.res, mem, "none", 1)
          ELSE Out("Ok", mem, fixed_from_be_bytes("I25F7", r.bytes), 1)}

\* Bram::read: size * N bytes from offset 0, cut into words of N = 4 bytes
Bram_read(mem) ==
    LET r == mock_read_n_bytes(mem, "my_bram", 0, BramSize * 4) IN
    {IF r.res # "Ok" THEN Out(r.res, mem, "none", 1)
     ELSE Out("Ok", mem, [k \in 1..BramSize |->
                            fixed_from_be_bytes("I25F7", SubSeq(r.bytes, 4 * k - 3, 4 * k))], 1)}

Bram_write_addr(mem, addr, val) ==
    {Out(o.res, o.memory, "none", 1) :
        o \in mock_write_bytes(mem, "my_bram", addr, fixed_to_be_bytes("I25F7", val))}

\* ---- the inputs of the calls ----
NumValues(type) ==
    CASE type = "u8" -> {0, 18, 255}
      [] type = "i8" -> {-128, 127}
      [] type = "u16" -> {1, 48879}
      [] type = "i16" -> {-2, 4660}
      [] type = "i32" -> {-1, 233495534, -2147483647}
      [] type = "u32" -> {<<57005, 48879>>, U32(1)}
      [] type = "f32" -> {<<16456, 62915>>, <<32704, 0>>, <<49024, 0>>}

NumOffsets == {0, 2}

\* Bits of the fixed-point values 0, 2.75, 8, 9, 300 and 70000, and of -9
\* and -300 where the type is signed.
FixedValues(kind) ==
    {r * (2 ^ (FRAC_NBITS(kind) - 2)) : r \in {0, 11, 32, 36, 1200, 280000}}
        \cup (IF kind = "I25F7" THEN {(0 - r) * (2 ^ FRAC_NBITS(kind)) : r \in {9, 300}} ELSE {})

SwConfigs ==
    [direction : {"FromProcessor", "ToProcessor"}, width : {8, 16}, kind : FixedKinds]

BramAddrs == 0 .. (BramSize + 1) \cup {MockRegisters["my_bram"].length + 1}

NoPrev == [some |-> FALSE, acc |-> "none", dev |-> "none", off |-> 0, v |-> "none"]
NoMk == [n |-> 0, op |-> "none", acc |-> "none", dev |-> "none", off |-> 0, v |-> "none",
         res |-> "none", got |-> "none", io |-> 0, prev |-> NoPrev]

MockInit ==
    /\ memory = MockNew
    /\ sw = [direction |-> "FromProcessor", width |-> 8, kind |-> "U27F5"]
    /\ mk = NoMk

MockFrame == UNCHANGED <<tftpVars, devVars, progVars, wrapVars, metaVars, perVars, portVars, adcVars, utilVars>>

\* One call on the Mock with outcome o; the call before it is remembered when
\* it was a write that succeeded.
MockCall(op, acc, device, off, v, o) ==
    /\ mk.n < MaxMockCalls
    /\ memory' = o.memory
    /\ mk' = [n |-> mk.n + 1, op |-> op, acc |-> acc, dev |-> device, off |-> off, v |-> v,
              res |-> o.res, got |-> o.got, io |-> o.io,
              prev |-> IF mk.op = "write" /\ mk.res = "Ok"
                       THEN [some |-> TRUE, acc |-> mk.acc, dev |-> mk.dev, off |-> mk.off, v |-> mk.v]
                       ELSE NoPrev]
    /\ UNCHANGED sw
    /\ MockFrame

NumWrite ==
    \E type \in NumTypes, off \in NumOffsets :
      \E v \in NumValues(type) :
        \E w \in mock_write(memory, "sys_scratchpad", off, type, v) :
          MockCall("write", type, "sys_scratchpad", off, v, Out(w.res, w.memory, "none", 1))

NumRead ==
    \E type \in NumTypes, off \in NumOffsets :
      \E r \in {mock_read(memory, "sys_scratchpad", off, type)} :
        MockCall("read", type, "sys_scratchpad", off, "none", Out(r.res, memory, r.got, 1))

FixedWrite ==
    \E v \in FixedValues(sw.kind) :
      \E o \in FixedSoftwareRegister_write(memory, sw, v) :
        MockCall("write", "fixed", "my_reg", 0, v, o)

FixedRead ==
    \E o \in FixedSoftwareRegister_read(memory, sw) :
      MockCall("read", "fixed", "my_reg", 0, "none", o)

BoolWrite ==
    \E v \in BOOLEAN :
      \E o \in BooleanSoftwareRegister_write(memory, sw, v) :
        MockCall("write", "bool", "my_bool", 0, v, o)

BoolRead ==
    \E o \in BooleanSoftwareRegister_read(memory) :
      MockCall("read", "bool", "my_bool", 0, "none", o)

SetSource ==
    \E s \in Sources :
      \E o \in set_source(memory, s) :
        MockCall("write", "source", "adc16_use_synth", 0, s, o)

GetSource ==
    \E o \in get_source(memory) :
      MockCall("read", "source", "adc16_use_synth", 0, "none", o)

BramWriteAddr ==
    \E i \in BramAddrs, v \in {-300, 352} :
      \E o \in Bram_write_addr(memory, i, v) :
        MockCall("write", "bram", "my_bram", i, v, o)

BramReadAddr ==
    \E i \in BramAddrs :
      \E o \in Bram_read_addr(memory, i) :
        MockCall("read", "bram", "my_bram", i, "none", o)

BramRead ==
    \E o \in Bram_read(memory) :
      MockCall("read", "bram_all", "my_bram", 0, "none", o)

(***************************************************************************)
(* The UDP endpoint of the handle (Tapcp::connect) under one transfer of   *)
(* tftp.rs: which port each packet is sent to and which replies the        *)
(* connected socket hands to recv.                                         *)
(***************************************************************************)
ServerPort    == 69      \* the port of the host the handle connects to
EphemeralPort == 1024    \* a port the server may choose as its transfer identifier
PortRetries   == 2       \* the retries the transfer is called with
MaxBlocks     == 2       \* blocks of a transfer
MaxPortCalls  == 2       \* transfers made on the socket in a run

NoXfer == [calls |-> 0, pc |-> "idle", kind |-> "none", n |-> 0, i |-> 0, retry_count |-> 0, res |-> "none",
           first |-> 0, discarded |-> FALSE, sentAfter |-> {}]
NoPNet == [toSrv |-> <<>>, toCli |-> <<>>, tid |-> 0]

\* Tapcp::connect: bind, then connect(host).  A connected UdpSocket sends every
\* datagram to the connected address and receives only datagrams whose source
\* is that address.
PortInit ==
    /\ sock = [peer |-> ServerPort, rx |-> <<>>]
    /\ xfer = NoXfer
    /\ pnet = NoPNet

PortFrame == UNCHANGED <<tftpVars, devVars, progVars, wrapVars, metaVars, perVars, mockVars, adcVars, utilVars>>

\* socket.send(packet): the datagram leaves for the connected address.
SocketSend(kind, block) ==
    /\ pnet' = [pnet EXCEPT !.toSrv = Append(@, [dst |-> sock.peer, kind |-> kind, block |-> block])]
    /\ UNCHANGED sock

\* What the transfer has sent since its first reply arrived.
NoteSent(x) == IF x.first = 0 THEN x ELSE [x EXCEPT !.sentAfter = @ \cup {sock.peer}]

\* read / write up to the first backoff_read: the request is sent.
PortCall ==
    /\ xfer.pc \in {"idle", "done"}
    /\ xfer.calls < MaxPortCalls
    /\ \E kind \in {"download", "upload"}, n \in 1..MaxBlocks :
          /\ xfer' = [NoXfer EXCEPT !.calls = xfer.calls + 1, !.pc = "await", !.kind = kind, !.n = n]
          /\ SocketSend(IF kind = "download" THEN "RRQ" ELSE "WRQ", 0)
    /\ PortFrame

\* The server handles the next datagram.  A request makes it choose the port of
\* the transfer, the well-known one or an ephemeral one, and answer from it;
\* afterwards it answers only datagrams addressed to that port.
PortServe ==
    /\ pnet.toSrv # <<>>
    /\ LET d == Head(pnet.toSrv)
           rest == Tail(pnet.toSrv)
       IN  \/ /\ d.kind \in {"RRQ", "WRQ"}
              /\ \E tid \in {ServerPort, EphemeralPort} :
                    pnet' = [toSrv |-> rest, tid |-> tid,
                             toCli |-> Append(pnet.toCli,
                                [src |-> tid,
                                 kind |-> IF d.kind = "RRQ" THEN "DATA" ELSE "ACK",
                                 block |-> IF d.kind = "RRQ" THEN 1 ELSE 0])]
           \/ /\ d.kind \in {"ACK", "DATA"} /\ d.dst = pnet.tid
              /\ pnet' = [pnet EXCEPT !.toSrv = rest,
                            !.toCli = IF d.kind = "DATA"
                                      THEN Append(@, [src |-> pnet.tid, kind |-> "ACK", block |-> d.block])
                                      ELSE IF d.block < xfer.n
                                      THEN Append(@, [src |-> pnet.tid, kind |-> "DATA", block |-> d.block + 1])
                                      ELSE @]
           \/ /\ d.kind \in {"ACK", "DATA"} /\ d.dst # pnet.tid
              /\ pnet' = [pnet EXCEPT !.toSrv = rest]
    /\ UNCHANGED <<sock, xfer>>
    /\ PortFrame

\* A reply reaches the client's host from the connected address: the socket
\* queues it for recv.
PortAccept ==
    /\ pnet.toCli # <<>>
    /\ Head(pnet.toCli).src = sock.peer
    /\ sock' = [sock EXCEPT !.rx = Append(@, Head(pnet.toCli))]
    /\ pnet' = [pnet EXCEPT !.toCli = Tail(@)]
    /\ xfer' = IF xfer.first = 0 THEN [xfer EXCEPT !.first = Head(pnet.toCli).src] ELSE xfer
    /\ PortFrame

\* A reply reaches the client's host from any other address: the connected
\* socket does not receive it.
PortDiscard ==
    /\ pnet.toCli # <<>>
    /\ Head(pnet.toCli).src # sock.peer
    /\ pnet' = [pnet EXCEPT !.toCli = Tail(@)]
    /\ xfer' = [xfer EXCEPT !.first = IF @ = 0 THEN Head(pnet.toCli).src ELSE @,
                            !.discarded = @ \/ xfer.first \in {0, Head(pnet.toCli).src}]
    /\ UNCHANGED sock
    /\ PortFrame

\* backoff_read returns a datagram and read / write act on it: read sends the
\* ACK of a DATA block and stops after the last block; write checks the ACK's
\* block number and sends the next DATA block or returns.
PortRecv ==
    /\ xfer.pc = "await"
    /\ sock.rx # <<>>
    /\ LET d == Head(sock.rx)
           x == [xfer EXCEPT !.retry_count = 0]
       IN  \/ /\ xfer.kind = "download"
              /\ xfer' = NoteSent(IF d.block >= xfer.n
                                  THEN [x EXCEPT !.pc = "done", !.res = "Ok", !.i = d.block]
                                  ELSE [x EXCEPT !.i = d.block])
              /\ pnet' = [pnet EXCEPT !.toSrv = Append(@, [dst |-> sock.peer, kind |-> "ACK", block |-> d.block])]
           \/ /\ xfer.kind = "upload" /\ d.block # xfer.i
              /\ xfer' = [x EXCEPT !.pc = "done", !.res = "BadBlock"]
              /\ UNCHANGED pnet
           \/ /\ xfer.kind = "upload" /\ d.block = xfer.i /\ xfer.i = xfer.n
              /\ xfer' = [x EXCEPT !.pc = "done", !.res = "Ok"]
              /\ UNCHANGED pnet
           \/ /\ xfer.kind = "upload" /\ d.block = xfer.i /\ xfer.i < xfer.n
              /\ xfer' = NoteSent([x EXCEPT !.i = xfer.i + 1])
              /\ pnet' = [pnet EXCEPT !.toSrv = Append(@, [dst |-> sock.peer, kind |-> "DATA", block |-> xfer.i + 1])]
    /\ sock' = [sock EXCEPT !.rx = Tail(@)]
    /\ PortFrame

\* backoff_read: recv times out; the call fails with Timeout once retry_count
\* equals retries.
PortTimeout ==
    /\ xfer.pc = "await"
    /\ sock.rx = <<>>
    /\ xfer' = IF xfer.retry_count + 1 = PortRetries
               THEN [xfer EXCEPT !.retry_count = @ + 1, !.pc = "done", !.res = "Timeout"]
               ELSE [xfer EXCEPT !.retry_count = @ + 1]
    /\ UNCHANGED <<sock, pnet>>
    /\ PortFrame

(***************************************************************************)
(* The ADC16 controller (yellow_blocks/snapadc/controller.rs) used from    *)
(* one thread: the control register with all its fields, the controller's  *)
(* chip-select and the registers sent over the 3-wire interface.           *)
(***************************************************************************)
MaxAdcCalls == 3      \* calls made on one controller in a run

AllDemuxModes == {"SingleChannel", "DualChannel", "QuadChannel"}

\* AdcControl::default().
AdcControlZero ==
    [demux_write_enable |-> FALSE, demux_mode |-> "SingleChannel", reset |-> FALSE,
     snap_request |-> FALSE, bitslip |-> {}, delay_taps |-> {}]

\* ChipSelect as the set of the chips selected: default() selects none.
ChipSelectDefault == {}
select_all == 0..7
by_number(v) == {v}

\* What the control register holds after v is written to it: gateware with
\* demux modes does not let demux_write_enable be set.
AdcStored(hw, v) == IF hw THEN [v EXCEPT !.demux_write_enable = FALSE] ELSE v

\* A run of transport accesses on the control register, the fail-th of which
\* returns a transport error (none when fail = 0).  Each access is
\* <<"w", value>> or <<"r">>; the result is the register afterwards, the last
\* value read and whether the run was cut short.
RECURSIVE AdcAccesses(_, _, _, _, _, _)
AdcAccesses(hw, r, last, accs, k, fail) ==
    IF accs = <<>> THEN [reg |-> r, last |-> last, failed |-> FALSE]
    ELSE IF k = fail THEN [reg |-> r, last |-> last, failed |-> TRUE]
    ELSE IF Head(accs)[1] = "w"
         THEN AdcAccesses(hw, AdcStored(hw, Head(accs)[2]), last, Tail(accs), k + 1, fail)
         ELSE AdcAccesses(hw, r, r, Tail(accs), k + 1, fail)

\* Adc16::supports_demux: write the probe, read it back.
supports_demux(hw, r, fail) ==
    LET a == AdcAccesses(hw, r, r,
                 << <<"w", [AdcControlZero EXCEPT !.demux_write_enable = TRUE]>>, <<"r">> >>, 1, fail)
    IN  IF a.failed THEN [res |-> "Transport", ret |-> FALSE, reg |-> a.reg, probe |-> FALSE]
        ELSE [res |-> "Ok", ret |-> ~a.last.demux_write_enable, reg |-> a.reg,
              probe |-> a.last.demux_write_enable]

\* Adc16::set_demux: supports_demux()?, then read, set demux_mode, write.
set_demux(hw, r, mode, fail) ==
    LET s == supports_demux(hw, r, fail) IN
    IF s.res # "Ok" THEN [res |-> s.res, reg |-> s.reg]
    ELSE IF ~s.ret THEN [res |-> "Unsupported", reg |-> s.reg]
    ELSE IF fail = 3 THEN [res |-> "Transport", reg |-> s.reg]
    ELSE IF fail = 4 THEN [res |-> "Transport", reg |-> s.reg]
    ELSE [res |-> "Ok", reg |-> AdcStored(hw, [s.reg EXCEPT !.demux_mode = mode])]

\* Adc16::bitslip and Adc16::snap_req: write default, write active, write default.
pulse(hw, r, active, fail) ==
    LET a == AdcAccesses(hw, r, r,
                 << <<"w", AdcControlZero>>, <<"w", active>>, <<"w", AdcControlZero>> >>, 1, fail)
    IN  [res |-> IF a.failed THEN "Transport" ELSE "Ok", reg |-> a.reg]

\* Adc16::power_cycle.  send_reg succeeds or fails as a whole; sends lists, for
\* the send_reg calls made, the chip-select each was sent with and its pd bit.
\* The fail-th send_reg returns an error (none when fail = 0), and the ? after
\* it leaves the method at once.
power_cycle(cs, fail) ==
    LET all  == <<[cs |-> cs, pd |-> TRUE]>> \o [i \in 1..8 |-> [cs |-> by_number(i - 1), pd |-> FALSE]]
        done == IF fail = 0 THEN 9 ELSE fail - 1
    IN  [res   |-> IF fail = 0 THEN "Ok" ELSE "Transport",
         sends |-> SubSeq(all, 1, done),
         cs    |-> IF fail = 0 THEN cs                      \* self.cs = old_cs
                   ELSE IF fail = 1 THEN cs                 \* failed before the loop
                   ELSE by_number(fail - 2)]                \* failed inside the loop

NoACall == [n |-> 0, op |-> "none", arg |-> "none", res |-> "none", ret |-> FALSE, probe |-> FALSE,
            before |-> AdcControlZero, cs_before |-> {}, sends |-> <<>>, trace |-> <<>>]

\* actl.initialized is the demux mode of the last successful initialize while
\* only snapshot, snap_req and bitslip calls have followed it.
AdcInit ==
    /\ actl = [reg |-> AdcControlZero, demux_hw |-> TRUE, initialized |-> "none"]
    /\ acs = ChipSelectDefault
    /\ acall = NoACall

AdcFrame == UNCHANGED <<tftpVars, devVars, progVars, wrapVars, metaVars, perVars, mockVars, portVars, utilVars>>

ACall(op, arg) ==
    [NoACall EXCEPT !.n = acall.n + 1, !.op = op, !.arg = arg,
                    !.before = actl.reg, !.cs_before = acs]

SupportsDemux ==
    /\ acall.n < MaxAdcCalls
    /\ \E fail \in 0..2 :
          LET s == supports_demux(actl.demux_hw, actl.reg, fail)
          IN  /\ actl' = [actl EXCEPT !.reg = s.reg, !.initialized = "none"]
              /\ acall' = [ACall("supports_demux", "none") EXCEPT !.res = s.res, !.ret = s.ret,
                                                                  !.probe = s.probe]
    /\ UNCHANGED acs
    /\ AdcFrame

SetDemux ==
    /\ acall.n < MaxAdcCalls
    /\ \E mode \in AllDemuxModes, fail \in 0..4 :
          LET s == set_demux(actl.demux_hw, actl.reg, mode, fail)
          IN  /\ actl' = [actl EXCEPT !.reg = s.reg, !.initialized = "none"]
              /\ acall' = [ACall("set_demux", mode) EXCEPT !.res = s.res]
    /\ UNCHANGED acs
    /\ AdcFrame

BitslipCall ==
    /\ acall.n < MaxAdcCalls
    /\ \E mask \in {{0}, {1, 7}}, fail \in 0..3 :
          LET s == pulse(actl.demux_hw, actl.reg, [AdcControlZero EXCEPT !.bitslip = mask], fail)
          IN  /\ actl' = [actl EXCEPT !.reg = s.reg]
              /\ acall' = [ACall("bitslip", mask) EXCEPT !.res = s.res]
    /\ UNCHANGED acs
    /\ AdcFrame

SnapReq ==
    /\ acall.n < MaxAdcCalls
    /\ \E fail \in 0..3 :
          LET s == pulse(actl.demux_hw, actl.reg, [AdcControlZero EXCEPT !.snap_request = TRUE], fail)
          IN  /\ actl' = [actl EXCEPT !.reg = s.reg]
              /\ acall' = [ACall("snap_req", "none") EXCEPT !.res = s.res]
    /\ UNCHANGED acs
    /\ AdcFrame

ChipSelectCall ==
    /\ acall.n < MaxAdcCalls
    /\ \E cs \in {select_all, by_number(2), {0, 1}} :
          /\ acs' = cs
          /\ acall' = [ACall("chip_select", cs) EXCEPT !.res = "Ok"]
    /\ actl' = [actl EXCEPT !.initialized = "none"]
    /\ AdcFrame

PowerCycle ==
    /\ acall.n < MaxAdcCalls
    /\ \E fail \in 0..9 :
          LET p == power_cycle(acs, fail)
          IN  /\ acs' = p.cs
              /\ acall' = [ACall("power_cycle", "none") EXCEPT !.res = p.res, !.sends = p.sends]
    /\ actl' = [actl EXCEPT !.initialized = "none"]
    /\ AdcFrame

(***************************************************************************)
(* The 3-wire word of the ADC controller and SnapAdc::initialize           *)
(* (controller.rs 88-143, 216-256, 389-429, 481-530; snapadc/mod.rs        *)
(* 130-194).  A call leaves the trace of its events: the lock and unlock   *)
(* of the transport and every write, with the word written; a write of the *)
(* 3-wire word names the chip register (addr) being sent.                  *)
(***************************************************************************)
\* Adc3Wire::idle(): sclk set, everything else default
Adc3WireIdle == [sclk |-> TRUE, sdata |-> FALSE, chip_select |-> ChipSelectDefault]

\* (x >> i) & 1 == 1
Bit(x, i) == (x \div (2 ^ i)) % 2 = 1

\* send_3wire_bit: clock low, then clock high, data and chip-select on both
send_3wire_bit(cs, bit) ==
    << [sclk |-> FALSE, sdata |-> bit, chip_select |-> cs],
       [sclk |-> TRUE,  sdata |-> bit, chip_select |-> cs] >>

RECURSIVE SendBits(_, _, _, _)
\* for i in (lo..=hi).rev(): the bits hi, hi - 1, ..., lo of x
SendBits(cs, x, hi, lo) ==
    IF hi < lo THEN <<>> ELSE send_3wire_bit(cs, Bit(x, hi)) \o SendBits(cs, x, hi - 1, lo)

RECURSIVE SendBitsUp(_, _, _, _)
SendBitsUp(cs, x, lo, hi) ==
    IF hi < lo THEN <<>> ELSE send_3wire_bit(cs, Bit(x, lo)) \o SendBitsUp(cs, x, lo + 1, hi)

\* the words of a send that starts with the least significant bits
send_reg_raw_lsb_first(cs, addr, val) ==
    <<Adc3WireIdle>> \o SendBitsUp(cs, addr, 0, 7) \o SendBitsUp(cs, val, 0, 15) \o <<Adc3WireIdle>>

\* send_reg_raw: the words written to the 3-wire word, in order
send_reg_raw(cs, addr, val) ==
    <<Adc3WireIdle>> \o SendBits(cs, addr, 7, 0) \o SendBits(cs, val, 15, 0) \o <<Adc3WireIdle>>

\* The chip registers of hmcad1511.rs that the controller sends, packed
\* (lsb0): R::addr() and u16::from_be_bytes(packed).
ChipReg(name, arg) ==
    CASE name = "Reset"             -> [addr |-> 0,  value |-> 1]                        \* reset: bit 0
      [] name = "SleepPd"           -> [addr |-> 15, value |-> IF arg THEN 512 ELSE 0]   \* pd: bit 9
      [] name = "ChanNumClkDiv"     -> [addr |-> 49,                                     \* channel_num: bits 0..2
                                        value |-> CASE arg = "Single" -> 1 [] arg = "Dual" -> 2
                                                    [] arg = "Quad" -> 4]
      [] name = "LvdsOutputControl" -> [addr |-> 83, value |-> IF arg THEN 8 ELSE 0]     \* low_clk_freq: bit 3
      [] name = "LvdsTerminations"  -> [addr |-> 17, value |-> 16384 + 3 + 16 * 3]       \* en, lclk _94, frame _94
      [] name = "LvdsDrives"        -> [addr |-> 18, value |-> 3 + 16 * 3]               \* lclk _0_5, frame _0_5
      [] name = "CustomPattern1"    -> [addr |-> 38, value |-> IF arg THEN 65280 ELSE 0] \* bits 8..15

EvLock   == [ev |-> "lock"]
EvUnlock == [ev |-> "unlock"]

\* the write events of a send_reg, up to the write that fails (all when fail = 0)
SendEvents(cs, r, fail) ==
    LET words == send_reg_raw(cs, r.addr, r.value)
        n     == IF fail = 0 THEN Len(words) ELSE fail - 1
    IN  [k \in 1..n |-> [ev |-> "write", to |-> "3wire", addr |-> r.addr, word |-> words[k]]]

\* a method that locks, sends one register and returns (reset, power_down,
\* power_up, custom_1, set_terminations, set_drive_strength)
SendOne(cs, r, fail) == <<EvLock>> \o SendEvents(cs, r, fail) \o <<EvUnlock>>

\* set_operating_mode: the low-frequency flag, then channel number and the flag
low_clk_freq(mode, freq) ==
    \/ mode = "Single" /\ freq < 240
    \/ mode = "Dual" /\ freq < 120
    \/ mode = "Quad" /\ freq < 60

DemuxOf(mode) ==
    CASE mode = "Single" -> "SingleChannel" [] mode = "Dual" -> "DualChannel"
      [] mode = "Quad" -> "QuadChannel"

ChipsBC == by_number(1) \cup by_number(2)

\* The steps of SnapAdc::initialize, each with the chip-select in force when
\* it runs.  cs0 is the chip-select the controller had before the call.
InitializeSteps(cs0, mode, freq) ==
    << [step |-> "reset",        cs |-> cs0,        regs |-> <<ChipReg("Reset", TRUE)>>],
       [step |-> "set_source",   cs |-> select_all, regs |-> <<>>],
       [step |-> "init.reset",   cs |-> select_all, regs |-> <<ChipReg("Reset", TRUE)>>],
       [step |-> "init.power_down", cs |-> select_all, regs |-> <<ChipReg("SleepPd", TRUE)>>],
       [step |-> "init.set_operating_mode", cs |-> select_all,
            regs |-> <<ChipReg("ChanNumClkDiv", mode),
                       ChipReg("LvdsOutputControl", low_clk_freq(mode, freq))>>],
       [step |-> "init.power_up", cs |-> select_all, regs |-> <<ChipReg("SleepPd", FALSE)>>],
       [step |-> "set_terminations", cs |-> ChipsBC, regs |-> <<ChipReg("LvdsTerminations", TRUE)>>],
       [step |-> "set_drive_strength", cs |-> ChipsBC, regs |-> <<ChipReg("LvdsDrives", TRUE)>>] >>

\* the events of one step that runs to its end
StepEvents(s, source) ==
    IF s.step = "set_source"
    THEN <<EvLock, [ev |-> "write", to |-> "adc16_use_synth",
                    word |-> IF source = "Internal" THEN 1 ELSE 0], EvUnlock>>
    ELSE <<EvLock>>
           \o (IF Len(s.regs) >= 1 THEN SendEvents(s.cs, s.regs[1], 0) ELSE <<>>)
           \o (IF Len(s.regs) >= 2 THEN SendEvents(s.cs, s.regs[2], 0) ELSE <<>>)
           \o <<EvUnlock>>

RECURSIVE StepsEvents(_, _, _)
StepsEvents(steps, n, source) ==
    IF n = 0 THEN <<>> ELSE StepsEvents(steps, n - 1, source) \o StepEvents(steps[n], source)

CtlWrite(v) == [ev |-> "write", to |-> "control", word |-> v]
CtlRead     == [ev |-> "read", to |-> "control"]

\* the events of set_demux on the control register: supports_demux under its
\* own lock, then the read and the write under a second one
DemuxEvents(d, mode, fail) ==
    <<EvLock>>
      \o (IF fail = 1 THEN <<>>
          ELSE <<CtlWrite([AdcControlZero EXCEPT !.demux_write_enable = TRUE])>>
                 \o (IF fail = 2 THEN <<>> ELSE <<CtlRead>>))
      \o <<EvUnlock>>
      \o (IF fail \in {1, 2} \/ d.res = "Unsupported" THEN <<>>
          ELSE <<EvLock>>
                 \o (IF fail = 3 THEN <<>>
                     ELSE <<CtlRead>> \o (IF fail = 4 THEN <<>> ELSE <<CtlWrite(d.reg)>>))
                 \o <<EvUnlock>>)

\* SnapAdc::initialize.  The fail-th step returns a transport error at its
\* first access (none when fail = 0); fail = 9.. is a failure inside
\* set_demux.  With the Internal source the method stops at todo!().
initialize(cs0, hw, r, source, mode, freq, fail) ==
    LET steps == InitializeSteps(cs0, mode, freq)
        n     == Len(steps)
    IN  IF fail \in 1..n /\ (source = "External" \/ fail <= 2)
        THEN [res |-> "Transport", reg |-> r,
              cs  |-> steps[fail].cs,
              trace |-> StepsEvents(steps, fail - 1, source) \o <<EvLock, EvUnlock>>]
        ELSE IF source = "Internal"
        THEN [res |-> "Panic", reg |-> r, cs |-> select_all, trace |-> StepsEvents(steps, 2, source)]
        ELSE LET d == set_demux(hw, r, DemuxOf(mode), IF fail > n THEN fail - n ELSE 0)
             IN  [res |-> d.res, reg |-> d.reg, cs |-> select_all,
                  trace |-> StepsEvents(steps, n, source)
                               \o DemuxEvents(d, DemuxOf(mode), IF fail > n THEN fail - n ELSE 0)]

\* ---- calls ----
MaxBankCalls == 2                    \* calls of initialize, snapshot and the single-register methods
SendFails  == {0, 1, 2, 27, 50}      \* the write of a send_reg that fails
SendMethods == {[m |-> "reset", r |-> ChipReg("Reset", TRUE)],
                [m |-> "power_down", r |-> ChipReg("SleepPd", TRUE)],
                [m |-> "power_up", r |-> ChipReg("SleepPd", FALSE)],
                [m |-> "custom_1", r |-> ChipReg("CustomPattern1", TRUE)],
                [m |-> "set_terminations", r |-> ChipReg("LvdsTerminations", TRUE)]}

SendRegCall ==
    /\ acall.n < MaxBankCalls
    /\ \E s \in SendMethods, fail \in SendFails :
          acall' = [ACall(s.m, s.r) EXCEPT !.res = IF fail = 0 THEN "Ok" ELSE "Transport",
                                           !.trace = SendOne(acs, s.r, fail)]
    /\ actl' = [actl EXCEPT !.initialized = "none"]
    /\ UNCHANGED acs
    /\ AdcFrame

Initialize ==
    /\ acall.n < MaxBankCalls
    /\ \E source \in {"External", "Internal"}, mode \in {"Single", "Dual", "Quad"},
          freq \in {100, 500} :
       \E fail \in IF source = "External" THEN 0..12 ELSE 0..2 :
          \E i \in {initialize(acs, actl.demux_hw, actl.reg, source, mode, freq, fail)} :
              /\ actl' = [actl EXCEPT !.reg = i.reg,
                                      !.initialized = IF i.res = "Ok" THEN DemuxOf(mode) ELSE "none"]
              /\ acs' = i.cs
              /\ acall' = [ACall("initialize", [source |-> source, mode |-> mode])
                              EXCEPT !.res = i.res, !.trace = i.trace]
    /\ AdcFrame

\* SnapAdc::snapshot: snap_req, then read_bytes of the chip's BRAM
Snapshot ==
    /\ acall.n < MaxBankCalls
    /\ \E chip \in {"A", "B", "C"}, fail \in 0..4 :
          LET s == pulse(actl.demux_hw, actl.reg, [AdcControlZero EXCEPT !.snap_request = TRUE], fail)
          IN  /\ actl' = [actl EXCEPT !.reg = s.reg]
              /\ acall' = [ACall("snapshot", chip) EXCEPT
                              !.res = IF fail = 4 THEN "Transport" ELSE s.res]
    /\ UNCHANGED acs
    /\ AdcFrame

(***************************************************************************)
(* The compact sorted list (casper_utils/src/csl.rs).  A blob is a         *)
(* sequence of bytes; a key is a Rust String, kept here as its UTF-8       *)
(* bytes.  The byte alphabet has ASCII letters, one two-byte character     *)
(* (C3 A9) and a lone continuation byte; it has no byte above DF, so the   *)
(* three- and four-byte forms of UTF-8 do not occur.                       *)
(***************************************************************************)
MaxEntries == 2     \* entries of a blob after the first one

IsContinuation(b) == b \in 128..191
IsLead2(b)        == b \in 194..223

RECURSIVE Utf8From(_, _)
Utf8From(bs, i) ==
    IF i > Len(bs) THEN TRUE
    ELSE IF bs[i] < 128 THEN Utf8From(bs, i + 1)
    ELSE IF IsLead2(bs[i]) /\ i + 1 <= Len(bs) /\ IsContinuation(bs[i + 1]) THEN Utf8From(bs, i + 2)
    ELSE FALSE

\* std::str::from_utf8(bytes).is_ok()
from_utf8(bs) == Utf8From(bs, 1)

\* str::is_char_boundary(n)
is_char_boundary(s, n) ==
    \/ n = 0
    \/ n = Len(s)
    \/ n < Len(s) /\ ~IsContinuation(s[n + 1])

\* bytes.get(a..b) is Some when the range ends inside the slice, and then holds
\* the bytes at 0-based a..b-1
is_some(bs, a, b) == b <= Len(bs)
get(bs, a, b)     == SubSeq(bs, a + 1, b)

CslErr(kind) == [res |-> kind, v |-> <<>>]

\* the loop of from_bytes, from one (H, T) pair to the next
RECURSIVE from_bytes_loop(_, _, _, _)
from_bytes_loop(bytes, payload_n, ptr, v) ==
    IF ptr + 1 > Len(bytes) THEN CslErr("Parse")                    \* bytes.get(ptr)
    ELSE IF ptr + 2 > Len(bytes) THEN CslErr("Parse")               \* bytes.get(ptr), after ptr += 1
    ELSE
      LET header_n == bytes[ptr + 1]
          tail_n   == bytes[ptr + 2]
          p2       == ptr + 2
          last     == v[Len(v)].key
      IN  IF header_n = 0 /\ tail_n = 0 THEN [res |-> "Ok", v |-> v]
          \* &v.last()?.0[..header_n] panics past the end and inside a character
          ELSE IF header_n > Len(last) \/ ~is_char_boundary(last, header_n) THEN CslErr("Panic")
          ELSE
            LET head       == SubSeq(last, 1, header_n)
                tail_bytes == get(bytes, p2, tail_n + p2)
                p3         == p2 + tail_n
                payload    == get(bytes, p3, payload_n + p3)
            IN  IF ~is_some(bytes, p2, tail_n + p2) THEN CslErr("Parse")
                ELSE IF ~from_utf8(tail_bytes) THEN CslErr("Utf8")
                ELSE IF ~is_some(bytes, p3, payload_n + p3) THEN CslErr("Parse")
                ELSE from_bytes_loop(bytes, payload_n, p3 + payload_n,
                                     Append(v, [key |-> head \o tail_bytes, payload |-> payload]))

from_bytes_first(bytes) ==
    IF Len(bytes) < 1 THEN CslErr("Parse")
    ELSE IF Len(bytes) < 2 THEN CslErr("Parse")
    ELSE
      LET payload_n == bytes[1]
          key_n     == bytes[2]
          key_bytes == get(bytes, 2, key_n + 2)
          ptr       == 2 + key_n
          key_pl    == get(bytes, ptr, payload_n + ptr)
      IN  IF ~is_some(bytes, 2, key_n + 2) THEN CslErr("Parse")
          ELSE IF ~from_utf8(key_bytes) THEN CslErr("Utf8")
          ELSE IF ~is_some(bytes, ptr, payload_n + ptr) THEN CslErr("Parse")
          ELSE from_bytes_loop(bytes, payload_n, ptr + payload_n,
                               <<[key |-> key_bytes, payload |-> key_pl]>>)

from_bytes(bytes) == from_bytes_first(bytes)

\* ---- the blobs the decoder is applied to ----
CslKeys  == {<<97>>, <<97, 98>>, <<195, 169>>}          \* "a", "ab", "é"
CslTails == {<<>>, <<98>>, <<99>>, <<170>>}             \* "", "b", "c", a lone continuation byte
CslShares == 0..2                                       \* the H byte of an entry
CslRest  == UNION {[1..n -> [h : CslShares, tail : CslTails]] : n \in 0..MaxEntries}
\* P is 0 or 1, and a truncated blob misses its last byte
CslInputs == [payload_n : 0..1, key0 : CslKeys, rest : CslRest, cut : 0..1]

\* the payload of entry i (0-based): payload_n bytes, the first one i + 1
CslPayload(p, i) == [j \in 1..p |-> i + j]

RECURSIVE CslBody(_, _, _)
CslBody(p, rest, i) ==
    IF i > Len(rest) THEN <<0, 0>>
    ELSE <<rest[i].h, Len(rest[i].tail)>> \o rest[i].tail \o CslPayload(p, i) \o CslBody(p, rest, i + 1)

CslWhole(in) == <<in.payload_n, Len(in.key0)>> \o in.key0 \o CslPayload(in.payload_n, 0)
                    \o CslBody(in.payload_n, in.rest, 1)

CslBlob(in) == SubSeq(CslWhole(in), 1, Len(CslWhole(in)) - in.cut)

NoCslOut == [res |-> "none", v |-> <<>>]
NoCsl    == [in |-> [payload_n |-> 0, key0 |-> <<97>>, rest |-> <<>>, cut |-> 0], out |-> NoCslOut]

(***************************************************************************)
(* The descriptor parser (casper_utils/src/design_sources/fpg.rs; the one  *)
(* of bitstream/fpg.rs has the same body).  A descriptor is the sequence   *)
(* of its lines, each line already split into its fields; a name is the    *)
(* sequence of its characters.                                             *)
(***************************************************************************)
MaxRegisters == 2   \* register lines of a descriptor
MaxMetas     == 2   \* meta lines of a descriptor

\* str::replace(from, to), character by character
replace_unchanged(s, from, to) == s
replace(s, from, to) == [i \in 1..Len(s) |-> IF s[i] = from THEN to ELSE s[i]]

FpgNames  == {<<"a">>, <<"a", "/", "b">>, <<"a", "_", "b">>}
FpgKinds  == {"xps:sw_reg", "xps:bram"}
FpgKeys   == {"bitwidths", "mode"}
FpgHeads  == {"whole", "no_shebang", "no_quit"}

RegisterLines == [tag : {"?register"}, name : FpgNames]
MetaLines     == [tag : {"?meta"}, device : FpgNames, kind : FpgKinds, key : FpgKeys]

FpgRegisterSeqs == UNION {[1..n -> RegisterLines] : n \in 0..MaxRegisters}
FpgMetaSeqs     == UNION {[1..n -> MetaLines] : n \in 0..MaxMetas}
FpgInputs       == [head : FpgHeads, registers : FpgRegisterSeqs, metas : FpgMetaSeqs]

FpgLine(t) == [tag |-> t]
Bitstream  == <<[tag |-> "bytes"]>>

\* the lines of the file an input stands for; the address of a register line
\* and the value of a meta line follow from the number of the line, so that no
\* two lines agree on them
FpgLines(in) ==
    (IF in.head = "no_shebang" THEN <<>> ELSE <<FpgLine("#!/bin/kcpfpg")>>)
        \o <<FpgLine("?uploadbin")>>
        \o [i \in DOMAIN in.registers |->
               [tag |-> "?register", name |-> in.registers[i].name, addr |-> 4 * (i - 1), size |-> 4]]
        \o [i \in DOMAIN in.metas |->
               [tag |-> "?meta", device |-> in.metas[i].device, kind |-> in.metas[i].kind,
                key |-> in.metas[i].key, value |-> i]]
        \o (IF in.head = "no_quit" THEN <<>> ELSE <<FpgLine("?quit")>>)
        \o Bitstream

\* terminated(tag(t), line_ending) accepts the first of the lines
Tagged(lines, t) == Len(lines) > 0 /\ lines[1].tag = t

\* many0(p): the number of leading lines p accepts
RECURSIVE many0(_, _, _)
many0(lines, t, n) == IF n < Len(lines) /\ lines[n + 1].tag = t THEN many0(lines, t, n + 1) ELSE n

\* meta: the fields of a meta line, the device name with '/' replaced by '_'
meta(line) == [name |-> replace(line.device, "/", "_"), kind |-> line.kind, k |-> line.key, v |-> line.value]

\* registers.into_iter().map(..).collect(): of two lines of one name the later one stays
Collect(regs) ==
    [n \in {regs[i].name : i \in DOMAIN regs} |->
        LET i == CHOOSE i \in DOMAIN regs : regs[i].name = n /\ \A j \in DOMAIN regs : regs[j].name = n => j <= i
        IN  [addr |-> regs[i].addr, size |-> regs[i].size]]

MapInsert(m, k, v) == [x \in DOMAIN m \cup {k} |-> IF x = k THEN v ELSE m[x]]
MapRemove(m, k)    == [x \in DOMAIN m \ {k} |-> m[x]]
EmptyMap           == [x \in {} |-> 0]

\* the loop over metas of fpg_file
RECURSIVE Devices(_, _, _, _)
Devices(metas, i, registers, devices) ==
    IF i > Len(metas) THEN devices
    ELSE
      LET m == meta(metas[i])
      IN  IF m.name \in DOMAIN devices
          THEN Devices(metas, i + 1, registers,
                       [devices EXCEPT ![m.name].metadata = MapInsert(@, m.k, m.v)])     \* d.add_meta
          ELSE Devices(metas, i + 1,
                       IF m.name \in DOMAIN registers THEN MapRemove(registers, m.name) ELSE registers,
                       MapInsert(devices, m.name,
                                 [kind     |-> m.kind,
                                  metadata |-> MapInsert(EmptyMap, m.k, m.v),
                                  \* registers.remove(&name), an Option: {} is None
                                  register |-> IF m.name \in DOMAIN registers
                                               THEN {registers[m.name]} ELSE {}]))

FpgErr == [res |-> "Err", devices |-> EmptyMap, bitstream |-> <<>>]

fpg_file(input) ==
    IF ~Tagged(input, "#!/bin/kcpfpg") THEN FpgErr
    ELSE LET r1 == Tail(input)
         IN  IF ~Tagged(r1, "?uploadbin") THEN FpgErr
             ELSE LET r2        == Tail(r1)
                      nr        == many0(r2, "?register", 0)
                      registers == SubSeq(r2, 1, nr)
                      r3        == SubSeq(r2, nr + 1, Len(r2))
                      nm        == many0(r3, "?meta", 0)
                      metas     == SubSeq(r3, 1, nm)
                      r4        == SubSeq(r3, nm + 1, Len(r3))
                  IN  IF ~Tagged(r4, "?quit") THEN FpgErr
                      ELSE [res       |-> "Ok",
                            devices   |-> Devices(metas, 1, Collect(registers), EmptyMap),
                            bitstream |-> Tail(r4)]

NoFpgOut == [res |-> "none", devices |-> EmptyMap, bitstream |-> <<>>]
NoFpg    == [in |-> [head |-> "whole", registers |-> <<>>, metas |-> <<>>], out |-> NoFpgOut]

UtilInit == csl = NoCsl /\ fpg = NoFpg

UtilFrame == UNCHANGED <<tftpVars, devVars, progVars, wrapVars, metaVars, perVars, mockVars, portVars, adcVars>>

FpgFile ==
    /\ fpg.out = NoFpgOut
    /\ fpg' = [fpg EXCEPT !.out = fpg_file(FpgLines(fpg.in))]
    /\ UNCHANGED csl
    /\ UtilFrame

FromBytes ==
    /\ csl.out = NoCslOut
    /\ csl' = [csl EXCEPT !.out = from_bytes(CslBlob(csl.in))]
    /\ UNCHANGED fpg
    /\ UtilFrame

(***************************************************************************)
(* Spec: the TFTP engine, its peer and the channel.                        *)
(***************************************************************************)
TftpFrame == UNCHANGED <<devVars, progVars, wrapVars, metaVars, perVars, mockVars, portVars, adcVars, utilVars>>

Upload           == (\E p \in Paths, l \in Lens : CallUpload(p, Bytes(0, l))) /\ TftpFrame
Download         == (\E p \in Paths : CallDownload(p)) /\ TftpFrame
Receive          == ClientRecv /\ TftpFrame
ReceiveTimeout   == ClientRecvTimeout /\ TftpFrame
ServerHandles    == SrvHandle /\ TftpFrame
ServerRetransmit == SrvTimer /\ TftpFrame
ChannelLoses     == Lose /\ TftpFrame

Init == TftpInit /\ DevInit /\ ProgInit /\ WrapInit /\ MetaInit /\ PerInit /\ MockInit /\ PortInit /\ AdcInit /\ UtilInit /\ platform = "SNAP" /\ flashMeta = <<>>

Next ==
    \/ Upload \/ Download \/ Receive \/ ReceiveTimeout
    \/ ServerHandles \/ ServerRetransmit \/ ChannelLoses

Spec == Init /\ [][Next]_vars

(***************************************************************************)
(* SpecDev: reads and writes of one device through the TAPCP transport.    *)
(***************************************************************************)
InitDev == TftpInit /\ net.retries = 0 /\ DevInit /\ ProgInit /\ WrapInit /\ MetaInit /\ PerInit /\ MockInit /\ PortInit /\ AdcInit /\ UtilInit /\ platform = "SNAP" /\ flashMeta = <<>>

NextDev == ReadNBytes \/ WriteBytes \/ SetIp \/ GetIp \/ ReadUnknownDevice \/ WriteUnknownDevice

SpecDev == InitDev /\ [][NextDev]_vars

(***************************************************************************)
(* SpecProg: program and deprogram on the board's flash.                   *)
(***************************************************************************)
InitProg == TftpInit /\ net.retries = 0 /\ DevInit /\ ProgInit /\ WrapInit /\ MetaInit /\ PerInit /\ MockInit /\ PortInit /\ AdcInit /\ UtilInit

NextProg ==
    \/ ProgramStart \/ ProgramWriteSector \/ ProgramUpdateMetadata
    \/ ProgramProgdev \/ Deprogram

SpecProg == InitProg /\ [][NextProg]_vars

(***************************************************************************)
(* SpecMeta: set_metadata and get_metadata on the metadata region.         *)
(***************************************************************************)
InitMeta ==
    /\ TftpInit /\ net.retries = 0 /\ DevInit /\ WrapInit /\ MetaInit /\ PerInit /\ MockInit /\ PortInit /\ AdcInit /\ UtilInit
    /\ platform = "SNAP" /\ flashAt = <<>>
    /\ \E f \in MetaFlashes : flashMeta = f.text /\ flashFill = f.fill
    /\ ppc = "idle" /\ pcall = NoPCall /\ plog = <<>> /\ booted = [addr |-> -1, calls |-> 0, issued |-> "none"]

NextMeta == SetMetadata \/ GetMetadataCall \/ GetMetadataStep

SpecMeta == InitMeta /\ [][NextMeta]_vars

(***************************************************************************)
(* SpecPer: peripheral calls of several threads on one handle.             *)
(***************************************************************************)
NextPer == PCall \/ DropOwner \/ PUpgrade \/ PLock \/ PAccess \/ PStep

InitPer == InitDev

SpecPer == InitPer /\ [][NextPer]_vars

(***************************************************************************)
(* SpecSnap: snapshots and controller calls of several threads.            *)
(***************************************************************************)
NextSnap == SnapCall \/ PUpgrade \/ PLock \/ PAccess \/ PStep

SpecSnap == InitPer /\ [][NextSnap]_vars

(***************************************************************************)
(* SpecWrap: the retry wrappers and is_running.                            *)
(***************************************************************************)
NextWrap == WrapCall \/ IsRunningCall \/ WrapStep

SpecWrap == InitDev /\ [][NextWrap]_vars

(***************************************************************************)
(* SpecMock: typed accessors and peripherals on one Mock.                  *)
(***************************************************************************)
InitMock ==
    /\ TftpInit /\ net.retries = 0 /\ DevInit /\ ProgInit /\ WrapInit /\ MetaInit /\ PerInit
    /\ platform = "SNAP" /\ flashMeta = <<>>
    /\ memory = MockNew /\ sw \in SwConfigs /\ mk = NoMk /\ PortInit /\ AdcInit /\ UtilInit

NextMock ==
    \/ NumWrite \/ NumRead \/ FixedWrite \/ FixedRead \/ BoolWrite \/ BoolRead
    \/ SetSource \/ GetSource \/ BramWriteAddr \/ BramReadAddr \/ BramRead

SpecMock == InitMock /\ [][NextMock]_vars

(***************************************************************************)
(* SpecPort: transfers over the handle's connected socket.                 *)
(***************************************************************************)
NextPort == PortCall \/ PortServe \/ PortAccept \/ PortDiscard \/ PortRecv \/ PortTimeout

SpecPort == InitDev /\ [][NextPort]_vars

(***************************************************************************)
(* SpecAdc: calls on the ADC16 controller from one thread.                 *)
(***************************************************************************)
InitAdc ==
    /\ TftpInit /\ net.retries = 0 /\ DevInit /\ ProgInit /\ WrapInit /\ MetaInit /\ PerInit
    /\ MockInit /\ PortInit /\ UtilInit
    /\ platform = "SNAP" /\ flashMeta = <<>>
    /\ \E hw \in BOOLEAN : actl = [reg |-> AdcControlZero, demux_hw |-> hw, initialized |-> "none"]
    /\ acs = ChipSelectDefault /\ acall = NoACall

NextAdc == SupportsDemux \/ SetDemux \/ BitslipCall \/ SnapReq \/ ChipSelectCall \/ PowerCycle

SpecAdc == InitAdc /\ [][NextAdc]_vars

(***************************************************************************)
(* SpecBank: SnapAdc::initialize, snapshots and single chip registers on   *)
(* the controller, from one thread.                                        *)
(***************************************************************************)
NextBank == Initialize \/ SendRegCall \/ Snapshot \/ SnapReq \/ BitslipCall \/ ChipSelectCall

SpecBank == InitAdc /\ [][NextBank]_vars

(***************************************************************************)
(* SpecSend: single chip registers sent under any chip-select.             *)
(***************************************************************************)
NextSend == SendRegCall \/ ChipSelectCall

SpecSend == InitAdc /\ [][NextSend]_vars

(***************************************************************************)
(* SpecCsl: from_bytes applied to blobs, whole and truncated.              *)
(***************************************************************************)
InitCsl ==
    /\ TftpInit /\ net.retries = 0 /\ DevInit /\ ProgInit /\ WrapInit /\ MetaInit /\ PerInit
    /\ MockInit /\ PortInit /\ AdcInit
    /\ platform = "SNAP" /\ flashMeta = <<>>
    /\ \E in \in CslInputs : csl = [in |-> in, out |-> NoCslOut]
    /\ fpg = NoFpg

NextCsl == FromBytes

SpecCsl == InitCsl /\ [][NextCsl]_vars

(***************************************************************************)
(* SpecFpg: fpg_file applied to descriptors.                               *)
(***************************************************************************)
InitFpg ==
    /\ TftpInit /\ net.retries = 0 /\ DevInit /\ ProgInit /\ WrapInit /\ MetaInit /\ PerInit
    /\ MockInit /\ PortInit /\ AdcInit
    /\ platform = "SNAP" /\ flashMeta = <<>>
    /\ csl = NoCsl
    /\ \E in \in FpgInputs : fpg = [in |-> in, out |-> NoFpgOut]

NextFpg == FpgFile

SpecFpg == InitFpg /\ [][NextFpg]_vars

(***************************************************************************)
(* Properties of the TFTP engine, checked under Spec.                      *)
(***************************************************************************)

\* The call that has just returned was made on a quiet socket: it is the second
\* call, the first was an upload that met no loss, retransmission or timeout,
\* and neither did this one.
QuietSecondCall ==
    /\ net.calls = 2 /\ net.faults = 0 /\ ~hist.timedOut
    /\ hist.prev = [kind |-> "upload", res |-> "Ok"]
    /\ hist.up.ok /\ hist.up.clean

\* C1: for every byte sequence B (its length 0 or a multiple of 512 included),
\* upload(path, B) run to completion followed by download(path) returns exactly B.
C1_UploadThenDownloadReturnsB ==
    (cpc = "done" /\ cop.kind = "download" /\ QuietSecondCall /\ hist.up.path = cop.path)
        => (cres = "Ok" /\ output = hist.up.data)

\* C7: a successful upload ends with a DATA packet of fewer than 512 bytes: when
\* len(data) is a multiple of 512 (0 included) the blocks sent are the n full
\* blocks and one empty DATA with block number n + 1.
C7_UploadEndsWithShortBlock ==
    (cpc = "done" /\ cop.kind = "upload" /\ cres = "Ok")
        => /\ hist.lastSent.op = "DATA"
           /\ Len(hist.lastSent.data) < MAX_DATA
           /\ hist.sentData = 1..((Len(cop.data) \div MAX_DATA) + 1)
           /\ (Len(cop.data) % MAX_DATA = 0
                  => hist.lastSent = DataP((Len(cop.data) \div MAX_DATA) + 1, <<>>, net.calls))

\* C8: while a call waits for a reply, a receive timeout either is the
\* `retries`-th in a row and fails the call with Timeout, or makes the engine
\* send its last packet again before it waits again.
C8_TimeoutStep ==
    ClientRecvTimeout =>
        IF retry_count' = cop.retries
        THEN cpc' = "done" /\ cres' = "Timeout"
        ELSE cpc' = cpc /\ srvRx' = Append(srvRx, hist.lastSent)

C8_TimeoutRetransmits == [][C8_TimeoutStep]_vars

\* C9: during download a DATA packet whose block number is not the next expected
\* one is not appended to the result and is not acknowledged with its own
\* number; the ACK of the last accepted block is sent again.
C9_UnexpectedDataStep ==
    (cpc = "rrq_wait" /\ ClientRecv /\ Head(cliRx).op = "DATA"
                      /\ Head(cliRx).block # hist.lastGood + 1)
        => /\ output' = output
           /\ srvRx' = IF hist.lastGood = 0 THEN srvRx
                       ELSE Append(srvRx, AckP(hist.lastGood, net.calls))

C9_UnexpectedDataIgnored == [][C9_UnexpectedDataStep]_vars

\* C10, first part: upload returns success only after ACK 0 for the WRQ and an
\* ACK with block number k for every DATA block k it sent.
C10_OkOnlyAfterAcks ==
    (cpc = "done" /\ cop.kind = "upload" /\ cres = "Ok")
        => (hist.gotAck0 /\ hist.sentData \subseteq hist.acks)

\* C10, second part: an ACK with any other block number fails the call with BadBlock.
C10_BadBlockStep ==
    (ClientRecv /\ cop.kind = "upload" /\ Head(cliRx).op = "ACK"
                /\ Head(cliRx).block # (IF cpc = "wrq_wait" THEN 0 ELSE ci + 1))
        => (cpc' = "done" /\ cres' = "BadBlock")

\* C10, consequence: while the second of two successive writes is under way, the
\* server has acknowledged every block of the first.
C10_FirstAckedBeforeSecond ==
    (cpc \in Waiting /\ cop.kind = "upload" /\ hist.prev = [kind |-> "upload", res |-> "Ok"])
        => \A k \in 1..NumChunks(hist.up.data) : <<net.calls - 1, k>> \in hist.srvAcked

\* C10: upload returns success only after ACK 0 and the ACK of every block it
\* sent, any other ACK fails it with BadBlock, and so of two successive writes
\* from one handle every block of the first has been acknowledged by the server
\* before any packet of the second is sent.
C10_WritesCompleteInOrder ==
    /\ []C10_OkOnlyAfterAcks
    /\ [][C10_BadBlockStep]_vars
    /\ []C10_FirstAckedBeforeSecond

(***************************************************************************)
(* Properties of the device reads and writes, checked under SpecDev.       *)
(***************************************************************************)

\* The memory `mem` with `data` stored from byte offset `offset`.
Stored(mem, offset, data) ==
    [i \in 1..Len(mem) |->
        IF i > offset /\ i <= offset + Len(data) THEN data[i - offset] ELSE mem[i]]

\* C2: read_n_bytes(device, offset, n) issues one request that starts at word
\* offset / 4 and asks for ceil((offset mod 4 + n) / 4) words, and returns the n
\* device bytes at positions offset .. offset + n - 1.
C2_ReadRequestsCoveringWords ==
    (dcall.op = "read_n_bytes" /\ dcall.res # "Tftp")
        => /\ ParseHex(dcall.file.off) = dcall.offset \div 4
           /\ ParseHex(dcall.file.n) = ((dcall.offset % 4) + dcall.n + 3) \div 4
           /\ dcall.res = "Ok"
           /\ dcall.out = SubSeq(dcall.before, dcall.offset + 1, dcall.offset + dcall.n)

\* C3: write_bytes(device, offset, data) with offset and len(data) multiples of
\* 4 names word offset / 4 in its request, stores data at byte offset `offset`
\* and changes no other byte, so reading the same range back returns data;
\* set_ip (register offset 0x14) is such a write.
C3_AlignedWriteLandsAtOffset ==
    (dcall.op \in {"write_bytes", "set_ip"} /\ dcall.res = "Ok"
        /\ dcall.offset % 4 = 0 /\ dcall.n % 4 = 0)
        => /\ ParseHex(dcall.file.off) = dcall.offset \div 4
           /\ dev = Stored(dcall.before, dcall.offset, dcall.data)
           /\ read_n_bytes(dev, DevName, dcall.offset, dcall.n, TRUE).out = dcall.data

(***************************************************************************)
(* Properties of program, checked under SpecProg.                          *)
(***************************************************************************)

\* The events of the running call that are flash writes of bitstream chunks.
ChunkWrites == {j \in 1..Len(plog) : plog[j].kind = "write"}

\* C4: program(D, force = false) writes no chunk and no metadata, issues no
\* progdev and returns success when the md5 stored in the flash metadata is the
\* hex form of D's md5; with force = true a successful program has written
\* every chunk of the bitstream.
C4_SkipsOnMatchingMd5 ==
    /\ (pcall.op = "program" /\ ~pcall.force
            /\ pcall.stored = HexDigest(DesignOf(pcall.design).md5))
         => (plog = <<>> /\ ppc = "done" /\ pcall.res = "Ok")
    /\ (pcall.op = "program" /\ pcall.force /\ ppc = "done" /\ pcall.res = "Ok")
         => {plog[j].idx : j \in ChunkWrites} = 0..(NumSectors(DesignOf(pcall.design)) - 1)

\* C5: program writes chunk i at flash address program_location + 65536 * i in
\* ascending order of i, writes the metadata only after every chunk write has
\* succeeded and issues progdev only after the metadata write has succeeded; a
\* failed chunk write is the last thing the call does.
C5_ChunksThenMetadataThenProgdev ==
    pcall.op = "program" =>
        \A j \in 1..Len(plog) :
            /\ plog[j].kind \in {"write", "write_failed"}
                  => /\ plog[j].idx = j - 1
                     /\ plog[j].addr = program_location(platform) + 65536 * plog[j].idx
            /\ plog[j].kind \in {"write_failed", "meta_failed"} => j = Len(plog)
            /\ plog[j].kind \in {"meta", "meta_failed"}
                  => /\ j = NumSectors(DesignOf(pcall.design)) + 1
                     /\ \A i \in 1..(j - 1) : plog[i].kind = "write"
            /\ plog[j].kind = "progdev" => (j > 1 /\ plog[j - 1].kind = "meta")

\* The flash holds d's complete bitstream in the program region: chunk by chunk
\* from byte address program_location, or where program's write_flash calls put it.
HoldsImage(d) ==
    \/ \A i \in 0..(NumSectors(d) - 1) :
          FlashGet(program_location(platform) + FLASH_SECTOR_SIZE * i) = Sector(d, i)
    \/ \A i \in 0..(NumSectors(d) - 1) :
          FlashGet(write_flash_addr(sector_offset(platform, i))) = Sector(d, i)

\* The md5 that get_metadata finds in the flash.
StoredMd5 == MetaGet(get_metadata(MetaFlash, TRUE).pairs, K_md5)

\* C6: between calls (a call that failed part-way through its chunk writes
\* included), if the md5 in the flash metadata is that of a design D then the
\* program region holds D's complete bitstream; and a program(D, force = false)
\* that skipped left D's complete bitstream in the program region.
C6_MetadataMatchesOnlyCompleteImage ==
    /\ ppc \in {"idle", "done"}
         => \A d \in Designs :
               StoredMd5 \in {md5_string(d.md5), HexDigest(d.md5)} => HoldsImage(d)
    /\ (ppc = "done" /\ pcall.op = "program" /\ ~pcall.force /\ pcall.res = "Ok" /\ plog = <<>>)
         => HoldsImage(DesignOf(pcall.design))

(***************************************************************************)
(* Claims about the retry wrappers (SpecWrap).                             *)
(***************************************************************************)
\* A pass of the loop that issued a transaction.
Attempted == wr.pc = "loop" /\ wr'.attempts = wr.attempts + 1

\* C11: a wrapper's transaction that succeeds makes the wrapper return Ok at
\* once; one that fails with anything but a server ERROR makes it return that
\* failure at once; one that fails with a server ERROR is never returned, the
\* wrapper goes round its loop, where it issues the whole transaction again
\* unless local_retries has reached retries (then it returns Timeout); and a
\* transaction after the first is issued only after a server ERROR.
C11_RetryOnlyOnServerError ==
    [][/\ Attempted =>
            /\ IsOk(wr'.last) => (wr'.pc = "done" /\ wr'.res = "Ok")
            /\ (~IsOk(wr'.last) /\ wr'.last \notin ProtocolErrors)
                  => (wr'.pc = "done" /\ wr'.res = wr'.last)
            /\ wr'.last \in ProtocolErrors => (wr'.pc = "loop" /\ wr'.res = "none")
            /\ wr.attempts > 0 => wr.last \in ProtocolErrors
       /\ (wr.pc = "loop" /\ wr' # wr /\ ~Attempted)
            => (wr.local_retries = wr.retries /\ wr'.pc = "done" /\ wr'.res = "Timeout"
                /\ wr'.attempts = wr.attempts)
      ]_vars

\* A wrapper that met a server ERROR, issued the transaction again and returned Ok.
C11_ReissuedAfterError ==
    wr.pc = "done" /\ wr.caller = "direct" /\ wr.attempts >= 2 /\ wr.res = "Ok"

\* C12: when is_running has returned, it returned false exactly when the server
\* answered the read of sys_clkcounter with ERROR NotFound, true when the read
\* succeeded, and an error in every other case.
C12_IsRunningFalseOnNotFound ==
    (wr.caller = "is_running" /\ wr.pc = "done") =>
        /\ (wr.running = "false") <=> (wr.last = "NotFound")
        /\ wr.last = "Ok" => wr.running = "true"
        /\ wr.last \notin {"Ok", "NotFound"} => wr.running = "error"

(***************************************************************************)
(* Claims about the flash metadata (SpecMeta).                             *)
(***************************************************************************)
\* get_metadata has returned something other than a transport failure, on a
\* flash that holds what the last successful set_metadata wrote.
GotAfterSet ==
    /\ mpc = "idle" /\ mcall.op = "get_metadata" /\ mcall.res # "Tftp"
    /\ mset.some

\* C13 as stated: for every map of ASCII keys to ASCII values, get_metadata
\* after set_metadata(map) returns exactly that map.
C13_RoundTripEveryMap ==
    GotAfterSet => (mcall.res = "Ok" /\ mcall.map = mset.map)

HasChar(s, c) == \E i \in 1..Len(s) : s[i] = c
StartsWithEnd(k) == Len(k) >= 3 /\ SubSeq(k, 1, 3) = <<"e", "n", "d">>

\* Maps whose text cannot be mistaken for the format's own marks, and whose
\* encoding ends within the chunks get_metadata reads.
PlainMap(map) ==
    /\ \A p \in map : /\ ~HasChar(p[1], "?") /\ ~HasChar(p[1], "\t") /\ ~StartsWithEnd(p[1])
                      /\ ~HasChar(p[2], "?")
    /\ Len(metadata_bytes(CHOOSE e \in Orders(map) : TRUE)) <= (MetaMaxChunks + 1) * MetaChunk

\* C13 amended: for every map in which no key holds '?' or a tab or starts with
\* "end", no value holds '?', and whose encoding with ?end fits in the 129
\* chunks get_metadata reads, get_metadata after set_metadata(map) returns
\* exactly that map.
C13_RoundTripPlainMap ==
    (GotAfterSet /\ PlainMap(mset.map)) => (mcall.res = "Ok" /\ mcall.map = mset.map)

\* The two-entry example map has been written and read back.
C13_ExampleReadBack ==
    /\ GotAfterSet /\ mcall.res = "Ok" /\ Cardinality(mset.map) = 2 /\ mcall.map = mset.map

\* ?end lies within the first n chunks of the region.
EndWithin(n) == \E w \in {FlashText(MetaFlash, 1, n * MetaChunk)} : Find(w, EndMark) # 0

\* C14: when get_metadata returns a map,
\* ?end lies within the chunks it read and not within those before the last;
\* when it fails with MissingMetadata, it has read exactly 128 chunks.
C14_GivesUpAfter128Chunks ==
    /\ (mpc = "idle" /\ mcall.op = "get_metadata" /\ mcall.res = "Ok") =>
          /\ EndWithin(mcall.reads) /\ ~EndWithin(mcall.reads - 1)
    /\ (mpc = "idle" /\ mcall.op = "get_metadata" /\ mcall.res = "MissingMetadata") =>
          mcall.reads = MetaMaxChunks

\* The part of C14 about where the loop stops.
C14_StopsAtFirstChunkWithEnd ==
    (mpc = "idle" /\ mcall.op = "get_metadata" /\ mcall.res = "Ok") =>
          /\ EndWithin(mcall.reads) /\ ~EndWithin(mcall.reads - 1)

(***************************************************************************)
(* Claims about peripheral calls on a shared handle (SpecPer).             *)
(***************************************************************************)
\* C15: no peripheral call comes to lock the transport while it holds the lock
\* itself, and none is stuck on a lock it holds.
C15_NoLockWhileHolding ==
    \A t \in Threads :
        /\ th[t].res # "deadlocked"
        /\ ~(Running(t) /\ Instr(t) = "lock" /\ th[t].guard)

\* A read-modify-write step of thread t that writes.
RmwWrite(t) ==
    /\ th[t].rmw /\ Running(t) /\ Instr(t) \in Writes
    /\ th'[t].ip = th[t].ip + 1

\* C16: from the read of a read-modify-write method (Snapshot.trigger,
\* TenGbE.toggle_reset, the read and write inside Adc16.set_demux) to its last
\* write the calling thread holds the transport lock and no other thread's
\* transport access takes place, and each of its writes leaves every other
\* field of the register as it was just before the write.
C16_ReadModifyWriteUnderLock ==
    /\ [](\A t \in Threads : th[t].rmw => (lock.holder = t /\ th[t].clean))
    /\ [][\A t \in Threads :
            RmwWrite(t) =>
               \A f \in DOMAIN reg[RegOf(th[t].op)] \ {OwnField(th[t].op)} :
                  reg'[RegOf(th[t].op)][f] = reg[RegOf(th[t].op)][f]]_vars

\* A thread is about to write in its read-modify-write of a register another
\* field of which was changed before, while the other thread waits for the lock
\* to work on the same register.
C16_WriteWhileOtherWaits ==
    \E t, u \in Threads :
        /\ t # u /\ th[t].rmw /\ Running(t) /\ Instr(t) \in Writes
        /\ Running(u) /\ Instr(u) = "lock" /\ RegOf(th[u].op) = RegOf(th[t].op)
        /\ th[t].op = "toggle_reset" /\ th[t].val.enable

\* C17: a peripheral call made after the owner of the handle was dropped never
\* gets past its first step and performs no transport access.
C17_CallAfterDropFailsAtOnce ==
    \A t \in Threads : (Running(t) /\ th[t].late) => (th[t].ip = 1 /\ ~th[t].io)

(***************************************************************************)
(* Properties of the typed accessors and peripherals, checked under        *)
(* SpecMock.                                                               *)
(***************************************************************************)
\* The accessors C18 names: the number types, the software registers and the
\* clock switch.
RoundTripAccessors == NumTypes \cup {"fixed", "bool", "source"}

\* The last call read through the accessor, device and offset of the
\* successful write made just before it.
ReadAfterWrite ==
    /\ mk.op = "read" /\ mk.prev.some
    /\ mk.acc \in RoundTripAccessors
    /\ mk.prev.acc = mk.acc /\ mk.prev.dev = mk.dev /\ mk.prev.off = mk.off

\* C18: on the Mock, a read made immediately after a successful write of v
\* through the same typed accessor at the same device and offset succeeds and
\* returns v, for the number types, the fixed-point and boolean software
\* registers and the clock-switch source.
C18_ReadReturnsWhatWasWritten ==
    ReadAfterWrite => mk.res = "Ok" /\ mk.got = mk.prev.v

\* A negative i32, a float, a signed fixed-point value, TRUE and Internal
\* have each been written and read back.
C18_ReadBackAfterWrite ==
    /\ ReadAfterWrite /\ mk.res = "Ok"
    /\ \/ mk.acc = "i32" /\ mk.prev.v = -2147483647
       \/ mk.acc = "f32" /\ mk.prev.v = <<16456, 62915>>
       \/ mk.acc = "fixed" /\ sw.kind = "I25F7" /\ mk.prev.v < 0
       \/ mk.acc = "bool" /\ mk.prev.v = TRUE
       \/ mk.acc = "source" /\ mk.prev.v = "Internal"

\* The integer magnitude of the fixed-point value with the given bits.
IntegerMagnitude(kind, bits) ==
    (IF bits < 0 THEN 0 - bits ELSE bits) \div (2 ^ FRAC_NBITS(kind))

\* The last call was FixedSoftwareRegister.write on a FromProcessor register.
FixedWriteCalled == mk.op = "write" /\ mk.acc = "fixed" /\ sw.direction = "FromProcessor"

\* C19: FixedSoftwareRegister.write(v) on a FromProcessor register fails with
\* Overflow and writes nothing when the integer magnitude of v exceeds
\* 2^width / 2^frac_bits, and writes v otherwise.
C19_OverflowAboveWidth ==
    FixedWriteCalled =>
        IF IntegerMagnitude(sw.kind, mk.v) > (2 ^ sw.width) \div (2 ^ FRAC_NBITS(sw.kind))
        THEN mk.res = "Overflow" /\ mk.io = 0
        ELSE mk.res = "Ok" /\ mk.io = 1

\* C20: Bram.read_addr(i) and Bram.write_addr(i, v) fail with OutOfBounds and
\* make no transport access for every i >= size.
C20_BramOutOfBounds ==
    mk.acc = "bram" /\ mk.off >= BramSize => mk.res = "OutOfBounds" /\ mk.io = 0

(***************************************************************************)
(* Error reporting of the TAPCP transport, checked under SpecDev.          *)
(***************************************************************************)
\* The last call was write_bytes with an offset or a length that is not a
\* multiple of 4.
SubWordWrite ==
    dcall.op = "write_bytes" /\ (dcall.offset % 4 # 0 \/ dcall.n % 4 # 0)

\* C21: a write_bytes request with offset mod 4 # 0 or len(data) mod 4 # 0
\* returns a NotSupported error, sends no packet and leaves the device
\* unchanged.
C21_SubWordWriteNotSupported ==
    SubWordWrite =>
        dcall.res = "NotSupported" /\ dcall.file.off = <<>> /\ dev = dcall.before

\* C22: a read or write naming a device that is not in the register map fails
\* with DeviceNotFound and changes no device memory.
C22_UnknownDeviceNotFound ==
    dcall.file.dev = UnknownDevice =>
        dcall.res = "DeviceNotFound" /\ dev = dcall.before

(***************************************************************************)
(* Ports of a transfer, checked under SpecPort.                            *)
(***************************************************************************)
\* C23: once the first reply of a transfer has arrived from the server's
\* ephemeral port, every later packet of the transfer is sent to that port
\* and no reply coming from that port is refused.
C23_AdoptsEphemeralPort ==
    xfer.first = EphemeralPort =>
        xfer.sentAfter \subseteq {EphemeralPort} /\ ~xfer.discarded

(***************************************************************************)
(* The boot command, checked under SpecProg.                               *)
(***************************************************************************)
\* The bytes progdev uploads to /progdev: addr.to_be_bytes().
ProgdevBytes(entry) == to_be_bytes(entry.addr, 4)

ProgdevEntries == {k \in 1..Len(plog) : plog[k].kind = "progdev"}

C25_ProbeBitLeftClear ==
    acall.op = "supports_demux" /\ acall.res = "Ok" =>
        /\ acall.ret = ~acall.probe
        /\ ~actl.reg.demux_write_enable

OtherFields == {"reset", "snap_request", "bitslip", "delay_taps"}

\* C26: set_demux(mode) fails and leaves demux_mode unchanged when the
\* gateware has no demux modes; otherwise, when it returns, demux_mode is
\* mode and reset, snap_request, bitslip and delay_taps are what they were
\* before the call.
C26_SetDemuxPreservesOtherFields ==
    acall.op = "set_demux" =>
        IF ~actl.demux_hw
        THEN acall.res # "Ok" /\ actl.reg.demux_mode = acall.before.demux_mode
        ELSE acall.res = "Ok" =>
                /\ actl.reg.demux_mode = acall.arg
                /\ \A f \in OtherFields : actl.reg[f] = acall.before[f]

\* The send_reg calls of a complete power_cycle: power-down with the
\* chip-select in force, then power-up for chip 0, 1, ..., 7.
PowerCycleSends(cs) ==
    <<[cs |-> cs, pd |-> TRUE]>> \o [i \in 1..8 |-> [cs |-> {i - 1}, pd |-> FALSE]]

\* C27: power_cycle sends power-down with the chip-select in force, then
\* power-up to chip 0, 1, ..., 7 in that order, and whenever it returns, on
\* success or on a transport error part-way, the chip-select is what it was
\* before the call.
C27_PowerCycleRestoresChipSelect ==
    acall.op = "power_cycle" =>
        /\ acall.sends = SubSeq(PowerCycleSends(acall.cs_before), 1, Len(acall.sends))
        /\ acall.res = "Ok" => acall.sends = PowerCycleSends(acall.cs_before)
        /\ acs = acall.cs_before

(***************************************************************************)
(* Properties of the compact sorted list, checked under SpecCsl.           *)
(***************************************************************************)
CharLen(s, i) == IF IsLead2(s[i]) THEN 2 ELSE 1

RECURSIVE CharCount(_, _)
CharCount(s, i) == IF i > Len(s) THEN 0 ELSE 1 + CharCount(s, i + CharLen(s, i))

\* the bytes of the first n characters of s
RECURSIVE CharPrefixLen(_, _, _)
CharPrefixLen(s, n, i) == IF n = 0 \/ i > Len(s) THEN i - 1 ELSE CharPrefixLen(s, n - 1, i + CharLen(s, i))

CharPrefix(s, n) == SubSeq(s, 1, CharPrefixLen(s, n, 1))

\* the entries a blob stands for: entry i has the first H_i characters of key
\* i-1 followed by its tail, up to the first (H = 0, T = 0) pair
RECURSIVE CslEntries(_, _, _)
CslEntries(in, i, v) ==
    IF i > Len(in.rest) \/ (in.rest[i].h = 0 /\ in.rest[i].tail = <<>>) THEN v
    ELSE CslEntries(in, i + 1,
                    Append(v, [key     |-> CharPrefix(v[Len(v)].key, in.rest[i].h) \o in.rest[i].tail,
                               payload |-> CslPayload(in.payload_n, i)]))

CslExpected(in) == CslEntries(in, 1, <<[key |-> in.key0, payload |-> CslPayload(in.payload_n, 0)]>>)

RECURSIVE CslEntriesWellFormed(_, _, _)
CslEntriesWellFormed(in, i, prev) ==
    IF i > Len(in.rest) \/ (in.rest[i].h = 0 /\ in.rest[i].tail = <<>>) THEN TRUE
    ELSE /\ in.rest[i].h <= CharCount(prev, 1)
         /\ from_utf8(in.rest[i].tail)
         /\ CslEntriesWellFormed(in, i + 1, CharPrefix(prev, in.rest[i].h) \o in.rest[i].tail)

\* a blob is well formed when it is whole, its keys are UTF-8 and no entry
\* inherits more characters than the previous key has
CslWellFormed(in) == in.cut = 0 /\ from_utf8(in.key0) /\ CslEntriesWellFormed(in, 1, in.key0)

\* C28: for every well-formed blob, from_bytes returns the entries in the order
\* encountered, entry i having the first H_i characters of key i-1 followed by
\* its T_i tail bytes and a payload of exactly P bytes, and it stops at the
\* first (H = 0, T = 0) pair.
C28_FromBytesDecodes ==
    csl.out # NoCslOut /\ CslWellFormed(csl.in)
        => csl.out = [res |-> "Ok", v |-> CslExpected(csl.in)]

(***************************************************************************)
(* Properties of the descriptor parser, checked under SpecFpg.             *)
(***************************************************************************)
\* the device name of a meta line with every '/' written as '_'
Rewritten(name) == [i \in DOMAIN name |-> IF name[i] = "/" THEN "_" ELSE name[i]]

RegisterNames(in) == {in.registers[i].name : i \in DOMAIN in.registers}
RegisterEntries(in, n) ==
    {[addr |-> 4 * (i - 1), size |-> 4] :
        i \in {j \in DOMAIN in.registers : in.registers[j].name = n}}
MetaLinesOf(in, n) == {i \in DOMAIN in.metas : Rewritten(in.metas[i].device) = n}

\* C29: for every descriptor that parses, each register of its register table
\* (a register is known by its name) is the register of exactly one device of
\* the devices map, also when no metadata line has its name, and no register
\* is attached to two devices.
C29_EveryRegisterOnOneDevice ==
    fpg.out.res = "Ok" =>
        \A n \in RegisterNames(fpg.in) :
            Cardinality({d \in DOMAIN fpg.out.devices :
                            d = n /\ fpg.out.devices[d].register \subseteq RegisterEntries(fpg.in, n)
                                  /\ fpg.out.devices[d].register # {}}) = 1

\* C30: for every descriptor that parses, the devices map has one entry per
\* distinct metadata device name after rewriting '/' to '_'; the entry's kind
\* is the kind of the first metadata line of that name, its metadata holds
\* every key of that name's metadata lines, and its register is the
\* register-table entry of the same name if there is one and absent otherwise.
C30_DevicesFromMetadata ==
    fpg.out.res = "Ok" =>
        LET in      == fpg.in
            devices == fpg.out.devices
            names   == {Rewritten(in.metas[i].device) : i \in DOMAIN in.metas}
        IN  /\ DOMAIN devices = names
            /\ \A n \in names :
                 LET lines == MetaLinesOf(in, n)
                     first == CHOOSE i \in lines : \A j \in lines : i <= j
                 IN  /\ devices[n].kind = in.metas[first].kind
                     /\ DOMAIN devices[n].metadata = {in.metas[i].key : i \in lines}
                     /\ IF n \in RegisterNames(in)
                        THEN /\ Cardinality(devices[n].register) = 1
                             /\ devices[n].register \subseteq RegisterEntries(in, n)
                        ELSE devices[n].register = {}

\* a parsed descriptor in which "a/b" and "a_b" name one device, the two lines
\* differ in kind and key, and the register table has an entry of that name
C30_TwoLinesOneDevice ==
    /\ fpg.out.res = "Ok"
    /\ Len(fpg.in.metas) = 2
    /\ fpg.in.metas[1].device = <<"a", "/", "b">> /\ fpg.in.metas[2].device = <<"a", "_", "b">>
    /\ fpg.in.metas[1].kind # fpg.in.metas[2].kind
    /\ fpg.in.metas[1].key # fpg.in.metas[2].key
    /\ <<"a", "_", "b">> \in RegisterNames(fpg.in)
    /\ fpg.out.devices[<<"a", "_", "b">>].register # {}

\* C31: for every retries >= 1, odd or even, a wrapper whose every transaction
\* so far was answered with a server ERROR (the last one was, and a transaction
\* is issued again only after one) has issued at most `retries` transactions,
\* and has returned Timeout if it has returned; retrying_upload has the same
\* bound as retrying_download.
C31_WrappersGiveUpWithinRetries ==
    (wr.pc \in {"loop", "done"} /\ wr.retries >= 1 /\ wr.last \in ProtocolErrors)
        => /\ wr.attempts <= wr.retries
           /\ wr.pc = "done" => wr.res = "Timeout"

(***************************************************************************)
(* Properties of SnapAdc::snapshot among several threads (SpecSnap).       *)
(***************************************************************************)
\* C32: from the snap-request write of a snapshot to the read of its BRAM the
\* calling thread holds the transport lock, and no transport access of another
\* thread (a snapshot request, a bitslip, a demux change) falls between the
\* request and the read.
C32_SnapshotHoldsLock ==
    \A t \in Threads :
        /\ th[t].pending => lock.holder = t
        /\ (th[t].pending \/ th[t].taken) => th[t].alone

\* C33: after SnapAdc.initialize has succeeded with mode Dual or Quad, the
\* control register's demux_mode is the mode initialize set for as long as only
\* snapshot, snap_req and bitslip calls follow.
C33_DemuxModeStaysAfterInitialize ==
    actl.initialized \in {"DualChannel", "QuadChannel"} => actl.reg.demux_mode = actl.initialized

\* The writes of a call's trace, and its lock events.
TraceWrites(tr) == SelectSeq(tr, LAMBDA e : e.ev = "write")
TraceLocks(tr)  == SelectSeq(tr, LAMBDA e : e.ev = "lock")

\* bit k (1..24) of a send: the address bits from the most significant one,
\* then the value bits from the most significant one
SentBit(a, v, k) == IF k <= 8 THEN (a \div (2 ^ (8 - k))) % 2 = 1 ELSE (v \div (2 ^ (24 - k))) % 2 = 1

IsIdleWord(w) == w.sclk /\ ~w.sdata

SendsOneRegister ==
    acall.op \in {"reset", "power_down", "power_up", "custom_1", "set_terminations"} /\ acall.res = "Ok"

WriteTarget(e) ==
    IF e.to = "3wire" THEN <<"chip", e.addr>> ELSE <<e.to, 0>>

\* a sequence with every run of equal elements reduced to one
Runs(s) ==
    LET first(k) == k = 1 \/ s[k] # s[k - 1]
        starts   == SelectSeq([k \in 1..Len(s) |-> k], first)
    IN  [j \in 1..Len(starts) |-> s[starts[j]]]

TraceTargets(tr) ==
    LET w == TraceWrites(tr) IN Runs([k \in 1..Len(w) |-> WriteTarget(w[k])])

\* reset; clock switch; init = reset, power down, channel number and clock
\* flag, power up; terminations; drive strengths; demux
InitializeOrder ==
    << <<"chip", ChipReg("Reset", TRUE).addr>>, <<"adc16_use_synth", 0>>,
       <<"chip", ChipReg("Reset", TRUE).addr>>, <<"chip", ChipReg("SleepPd", TRUE).addr>>,
       <<"chip", ChipReg("ChanNumClkDiv", "Single").addr>>,
       <<"chip", ChipReg("LvdsOutputControl", TRUE).addr>>,
       <<"chip", ChipReg("SleepPd", FALSE).addr>>,
       <<"chip", ChipReg("LvdsTerminations", TRUE).addr>>,
       <<"chip", ChipReg("LvdsDrives", TRUE).addr>>, <<"control", 0>> >>

InitializedExternal ==
    acall.op = "initialize" /\ acall.arg.source = "External" /\ acall.res = "Ok"

\* C39: SnapAdc.initialize with the External source that returns Ok has
\* written, in this order, the controller reset, the clock switch, the
\* registers of init(mode, sample_rate), the LVDS terminations, the LVDS
\* drive strengths and the demux mode; every write of the 3-wire word made
\* while sending the termination and the drive-strength register carries
\* chip-select exactly {B, C}; and the chip-select it leaves is all chips.
C39_InitializeOrderAndChipSelect ==
    InitializedExternal =>
        LET w == TraceWrites(acall.trace)
        IN  /\ TraceTargets(acall.trace) = InitializeOrder
            /\ \A k \in 1..Len(w) :
                 (w[k].to = "3wire" /\ w[k].addr \in {ChipReg("LvdsTerminations", TRUE).addr,
                                                      ChipReg("LvdsDrives", TRUE).addr})
                     => w[k].word.chip_select = ChipsBC
            /\ acs = select_all

\* C36: whatever well-formed packet arrives while upload or download awaits
\* a reply (an ACK, RRQ or WRQ during a download, a DATA, RRQ or WRQ during
\* an upload), the call returns a result: it never ends in an abort of the
\* process.
C36_TransfersNeverAbort ==
    cpc = "done" => cres \in {"Ok", "Timeout", "BadBlock", "ErrorResponse"}

\* what Bram::read returns on a memory that holds every byte of the BRAM
BramWords(mem) == (CHOOSE o \in Bram_read(mem) : TRUE).got

\* C37: on a BRAM of four-byte words, for every i below its size,
\* read_addr(i) returns the i-th element of what read() returns, and
\* write_addr(i, v) changes the i-th element of read() to v and no other
\* element.
C37_BramAddrIsElementIndex ==
    [][(mk'.n # mk.n /\ mk'.acc = "bram" /\ mk'.off < BramSize /\ mk'.res = "Ok")
          => IF mk'.op = "read"
             THEN mk'.got = BramWords(memory)[mk'.off + 1]
             ELSE BramWords(memory') = [BramWords(memory) EXCEPT ![mk'.off + 1] = mk'.v]]_vars

\* C34: when program(D, force = false) returns success, a progdev for D's
\* image has been issued since the last deprogram: a success never leaves
\* the progdev of a deprogram as the last one issued.
C34_SuccessMeansProgdevSinceDeprogram ==
    (ppc = "done" /\ pcall.op = "program" /\ ~pcall.force /\ pcall.res = "Ok")
        => booted.issued # "deprogram"

\* program returned Ok at the comparison of the digests, without writing
SkippedByDigest ==
    ppc = "done" /\ pcall.op = "program" /\ pcall.res = "Ok" /\ plog = <<>>

\* C35: md5_string gives distinct strings for distinct digests: the string
\* of a design's digest has 32 characters, two hex digits for each byte, no
\* other design's digest has the same string, and so program's comparison
\* matches only when the digest the flash metadata was written from is the
\* digest of the design handed to program.
C35_Md5StringInjective ==
    pcall.op = "program" =>
        LET D == DesignOf(pcall.design)
        IN  /\ Len(md5_string(D.md5)) = 32
            /\ md5_string(D.md5) = HexDigest(D.md5)
            /\ \A d \in Designs : md5_string(d.md5) = md5_string(D.md5) => d.md5 = D.md5
            /\ SkippedByDigest =>
                 \A d \in Designs : pcall.stored \in {md5_string(d.md5), HexDigest(d.md5)} => d.md5 = D.md5

\* C40: for every byte sequence from_bytes returns a list or an error
\* value; a truncated input, and an entry whose H is larger than the length
\* of the previous key, give an error value and never an abort of the
\* process.
C40_FromBytesNeverAborts ==
    csl.out # NoCslOut => csl.out.res \in {"Ok", "Parse", "Utf8"}

====
